---- MODULE Spec2Model ----
(***************************************************************************)
(* A model of pbtranscript's collapsing stage (CollapseIsoformsRunner,     *)
(* Branch), of the sample chainer (chain_samples), of the read counter     *)
(* (CountRunner), of the group and mega-info file formats (GroupIO,        *)
(* MergeGroupIO) and of the merge of the quiver job logs (IceQuiverMerge).  *)
(*                                                                         *)
(* Six state machines share the module: SpecCollapse runs                  *)
(* CollapseIsoformsRunner.run on a sorted alignment stream (SpecLoci on    *)
(* valid inputs without a coverage threshold, SpecGrouping on a stream in  *)
(* any order), SpecChain runs chain_samples on a chain config, SpecCount   *)
(* constructs and runs a CountRunner, SpecGroupIO sends a GroupRecord      *)
(* through its text form and a group file, SpecMegaIO writes               *)
(* MergeGroupOperations to a mega-info file and reads them back, SpecIce   *)
(* runs IceQuiverMergeRunner.  The variables of the machines that are not  *)
(* running keep their idle value.                                          *)
(***************************************************************************)
EXTENDS Integers, Sequences, FiniteSets, TLC

VARIABLES
    \* ---- CollapseIsoformsRunner / Branch ----
    cfg,          \* the runner's options
    sam,          \* the sorted GMAP SAM stream (catalogue indices; record id = position)
    pc,           \* position in CollapseIsoformsRunner.run
    pos,          \* iter_gmap_sam: number of SAM records consumed
    pending,      \* Branch.run: strand groups of the current region not yet visited
    cuff_index,   \* Branch.run: next locus index
    files,        \* the file system: path -> [exists, link, data]
    closes,       \* writer -> number of close() calls
    calls,        \* calls made to the collapsing utilities, in order
    unions,       \* pairs of records that a collapse pass joined directly
    \* ---- chain_samples ----
    chain,          \* cfg.samples: the sample names, in configured order
    ccfg,           \* per sample: its collapsed transcripts and its abundance file
    cpc,            \* position in chain_samples
    o,              \* the MegaPBTree holding the accumulated result
    fi,             \* index in cfg.samples of the next sample to fold
    folds,          \* the calls of add_sample made so far, in order
    mega,           \* mega-info files: path -> [exists, header, rows]
    cexists,        \* the other files the chainer wrote
    abundance_info, \* (sample name, pbid) -> abundance
    mega_info_d,    \* (o_prefix, pbid) -> row of a mega-info file
    rowi,           \* index of the row of the last mega-info being resolved
    walk,           \* the backward walk of that row
    out_ids,        \* rows written to all_samples.chained_ids.txt
    out_counts,     \* rows written to all_samples.chained_count.txt
    \* ---- CountRunner ----
    cin,            \* the files the CountRunner is given, as they are on disk
    kpc,            \* position in CountRunner.__init__ / CountRunner.run
    prefix_dict,    \* self.prefix_dict: per sample prefix, its cluster directory
    raised,         \* the exception that left the CountRunner, "" if none
    read_stat,      \* the file at read_stat_fn: [exists, data]
    abund,          \* the file at abundance_fn: [exists, data]
    \* ---- GroupRecord / GroupWriter / GroupReader ----
    grec,           \* the GroupRecord at hand: [name, members], strings as character lists
    gpc,            \* what has been done with it
    gparsed,        \* GroupRecord.fromString(str(grec)), or the exception
    gfile,          \* the lines of the group file
    gread,          \* the records GroupReader yielded, or the exception
    \* ---- MergeGroupOperation / MegaInfoWriter ----
    mwin,           \* the file name and the two prefixes given to MegaInfoWriter
    mwpc,           \* position of the writing loop
    mwargs,         \* the constructor arguments of every operation attempted
    mwops,          \* the operations constructed and written so far
    mwraised,       \* the exception that ended the loop, "" if none
    mwread,         \* the rows MegaInfoReader yielded
    \* ---- IceQuiverMerge ----
    icein,          \* N and the chunk logs on disk
    ipc,            \* position in IceQuiverMergeRunner.run
    isrc,           \* src, the chunk logs to merge
    ii,             \* index of the next chunk log to look for
    iraised,        \* the exception raised in IceQuiverMerge.run, "" if none
    icelog,         \* the log IceQuiver.add_log writes to
    merged,         \* root_dir/log/submitted_quiver_jobs.txt: [exists, data]
    ret             \* the runner's return code, -1 while it runs

collapseVars == <<cfg, sam, pc, pos, pending, cuff_index, files, closes,
                  calls, unions>>
chainVars == <<chain, ccfg, cpc, o, fi, folds, mega, cexists, abundance_info, mega_info_d,
              rowi, walk, out_ids, out_counts>>
countVars == <<cin, kpc, prefix_dict, raised, read_stat, abund>>
groupIOVars == <<grec, gpc, gparsed, gfile, gread>>
megaIOVars == <<mwin, mwpc, mwargs, mwops, mwraised, mwread>>
iceVars == <<icein, ipc, isrc, ii, iraised, icelog, merged, ret>>
ioVars == <<groupIOVars, megaIOVars, iceVars>>
vars == <<collapseVars, chainVars, countVars, ioVars>>

(***************************************************************************)
(* Bounds of the model.                                                    *)
(***************************************************************************)
MaxRecs == 4        \* records in the SAM stream
MaxFuzzy == 1       \* largest max_fuzzy_junction tried

(***************************************************************************)
(* Exon chains and the alignments the stream is drawn from.                *)
(***************************************************************************)
T1 == << <<10, 20>>, <<30, 40>>, <<50, 60>> >>
T2 == << <<33, 40>>, <<50, 60>> >>               \* T1 without its first exon
T3 == << <<10, 20>>, <<30, 40>> >>               \* T1 without its last exon
T4 == << <<10, 20>>, <<31, 40>>, <<50, 60>> >>   \* T1, one junction moved by 1
T5 == << <<10, 20>>, <<32, 40>>, <<50, 60>> >>   \* T1, one junction moved by 2
T6 == << <<70, 80>>, <<90, 95>> >>               \* overlaps none of the others
T7 == << <<10, 20>>, <<31, 40>> >>               \* T3, its junction moved by 1
T8 == << <<35, 45>>, <<55, 75>> >>               \* reaches from T1..T5 to T6

Aln(ref, strand, exons, ok, err) ==
    [ref |-> ref, strand |-> strand, exons |-> exons, ok |-> ok, err |-> err]

\* The alignments a stream is drawn from, in (reference id, reference start)
\* order.  ok: the alignment passes min_aln_coverage and min_aln_identity;
\* err: the isoform's estimated error.
Catalogue ==
    << Aln("chr1", "+", T1, TRUE, 3),
       Aln("chr1", "+", T4, TRUE, 1),
       Aln("chr1", "+", T5, TRUE, 2),
       Aln("chr1", "+", T3, TRUE, 1),
       Aln("chr1", "-", T1, TRUE, 2),
       Aln("chr1", "-", T7, TRUE, 1),
       Aln("chr1", "+", T1, FALSE, 1),
       Aln("chr1", "+", T2, TRUE, 1),
       Aln("chr1", "-", T8, TRUE, 1),
       Aln("chr1", "+", T6, TRUE, 1),
       Aln("chr2", "+", T1, TRUE, 1) >>

Start(exons) == exons[1][1]
End(exons) == exons[Len(exons)][2]

RECURSIVE ExonSum(_)
ExonSum(exons) ==
    IF exons = <<>> THEN 0
    ELSE (Head(exons)[2] - Head(exons)[1]) + ExonSum(Tail(exons))

\* The SAM records of the stream: the raw record id is the position.
Rec(i) == [id |-> i] @@ Catalogue[sam[i]]
RecIds == 1..Len(sam)

\* Junctions of an exon chain: (donor, acceptor) of consecutive exons.
Junctions(exons) ==
    [i \in 1..(Len(exons) - 1) |-> <<exons[i][2], exons[i + 1][1]>>]

Abs(n) == IF n < 0 THEN -n ELSE n

JunctionClose(j1, j2, fuzz) ==
    Abs(j1[1] - j2[1]) <= fuzz /\ Abs(j1[2] - j2[2]) <= fuzz

\* short's junctions equal long's junctions off+1 .. off+Len(short), within fuzz.
MatchAt(short, long, off, fuzz) ==
    \A i \in 1..Len(short) : JunctionClose(short[i], long[off + i], fuzz)

(***************************************************************************)
(* Comparing exon chains (CollapsingUtils.compare_fuzzy_junctions and      *)
(* can_merge; their source is not part of the files at hand, so they       *)
(* follow the design document, sections 4.2 and 4.3).                      *)
(***************************************************************************)
\* "exact": the same number of junctions, each within fuzz of its counterpart;
\* "subset"/"super": the junctions of one chain are a contiguous run of the
\* other's (only terminal exons are missing).
compare_fuzzy_junctions(exons1, exons2, fuzz) ==
    LET j1 == Junctions(exons1)
        j2 == Junctions(exons2)
    IN  IF Len(j1) = Len(j2) /\ MatchAt(j1, j2, 0, fuzz) THEN "exact"
        ELSE IF /\ 0 < Len(j1) /\ Len(j1) < Len(j2)
                /\ \E off \in 0..(Len(j2) - Len(j1)) : MatchAt(j1, j2, off, fuzz)
             THEN "subset"
        ELSE IF /\ 0 < Len(j2) /\ Len(j2) < Len(j1)
                /\ \E off \in 0..(Len(j1) - Len(j2)) : MatchAt(j2, j1, off, fuzz)
             THEN "super"
        ELSE "nomatch"

\* short lacks only 5' exons of long: the two end on the same 3' junctions.
\* The 5' end is the left end on the + strand and the right end on the - strand.
FiveTruncated(short, long, strand, fuzz) ==
    LET js == Junctions(short)
        jl == Junctions(long)
    IN  /\ 0 < Len(js) /\ Len(js) < Len(jl)
        /\ MatchAt(js, jl, IF strand = "+" THEN Len(jl) - Len(js) ELSE 0, fuzz)

can_merge(m, r1, r2, allow_extra_5exon, fuzz) ==
    IF m = "exact" THEN TRUE
    ELSE IF ~allow_extra_5exon THEN FALSE
    ELSE IF m = "subset" THEN FiveTruncated(r1.exons, r2.exons, r1.strand, fuzz)
    ELSE IF m = "super" THEN FiveTruncated(r2.exons, r1.exons, r1.strand, fuzz)
    ELSE FALSE

\* Two records of one reference and strand that a collapse pass joins.
Mergeable(r1, r2, allow_extra_5exon, fuzz) ==
    /\ r1.ref = r2.ref /\ r1.strand = r2.strand
    /\ can_merge(compare_fuzzy_junctions(r1.exons, r2.exons, fuzz), r1, r2,
                 allow_extra_5exon, fuzz)

(***************************************************************************)
(* Union-find over a list of records: the classes of the transitive        *)
(* closure of Mergeable.                                                   *)
(***************************************************************************)
Edges(rs, allow_extra_5exon, fuzz) ==
    {e \in (1..Len(rs)) \X (1..Len(rs)) :
        e[1] < e[2] /\ Mergeable(rs[e[1]], rs[e[2]], allow_extra_5exon, fuzz)}

RECURSIVE Component(_, _, _)
Component(c, E, n) ==
    LET grown == c \cup {j \in 1..n : \E i \in c : <<i, j>> \in E \/ <<j, i>> \in E}
    IN  IF grown = c THEN c ELSE Component(grown, E, n)

Classes(E, n) == {Component({i}, E, n) : i \in 1..n}

Min(S) == CHOOSE x \in S : \A y \in S : x <= y

RECURSIVE SetToSeq(_)
SetToSeq(S) == IF S = {} THEN <<>> ELSE <<Min(S)>> \o SetToSeq(S \ {Min(S)})

\* The classes in the order of their first member.
RECURSIVE ClassSeq(_)
ClassSeq(CS) ==
    IF CS = {} THEN <<>>
    ELSE LET c == CHOOSE c \in CS : \A d \in CS : Min(c) <= Min(d)
         IN  <<c>> \o ClassSeq(CS \ {c})

Span(r) == End(r.exons) - Start(r.exons)

\* The member of class c that is written as the class's record: the one
\* with the most exons, then the longest span, then the first.
Longest(c, rs) ==
    CHOOSE i \in c : \A j \in c :
        \/ Len(rs[i].exons) > Len(rs[j].exons)
        \/ Len(rs[i].exons) = Len(rs[j].exons) /\ Span(rs[i]) > Span(rs[j])
        \/ Len(rs[i].exons) = Len(rs[j].exons) /\ Span(rs[i]) = Span(rs[j]) /\ i <= j

RECURSIVE Flatten(_)
Flatten(ss) == IF ss = <<>> THEN <<>> ELSE Head(ss) \o Flatten(Tail(ss))

Range(s) == {s[i] : i \in 1..Len(s)}

(***************************************************************************)
(* CollapsedFiles: the paths of one run.                                   *)
(***************************************************************************)
Prefix == "out"

has_5merge_str == IF cfg.allow_extra_5exon THEN "5merge" ELSE "no5merge"
good_gff_fn == Prefix \o "." \o has_5merge_str \o ".collapsed.good.gff"
bad_gff_fn == Prefix \o "." \o has_5merge_str \o ".collapsed.bad.gff"
group_fn == Prefix \o "." \o has_5merge_str \o ".collapsed.group.txt"
ignored_ids_txt_fn == Prefix \o "." \o has_5merge_str \o ".ignored_ids.txt"
good_fuzzy_gff_fn == good_gff_fn \o ".fuzzy"
good_unfuzzy_gff_fn == good_gff_fn \o ".unfuzzy"
bad_fuzzy_gff_fn == bad_gff_fn \o ".fuzzy"
bad_unfuzzy_gff_fn == bad_gff_fn \o ".unfuzzy"
\* The fuzzy group file on the path of the unfuzzy one.
fuzzy_group_on_unfuzzy == group_fn \o ".unfuzzy"

fuzzy_group_fn == group_fn \o ".fuzzy"
unfuzzy_group_fn == group_fn \o ".unfuzzy"
collapsed_isoform_filename == Prefix \o ".fastq"

Paths ==
    {good_gff_fn, bad_gff_fn, group_fn, ignored_ids_txt_fn, good_fuzzy_gff_fn,
     good_unfuzzy_gff_fn, bad_fuzzy_gff_fn, bad_unfuzzy_gff_fn, fuzzy_group_fn,
     unfuzzy_group_fn, collapsed_isoform_filename}

\* A test that also sends max_fuzzy_junction = 0 to the fuzzy pass.
shall_collapse_always == cfg.max_fuzzy_junction >= 0

shall_collapse_fuzzy_junctions == cfg.max_fuzzy_junction > 0

(***************************************************************************)
(* The file system.  A file is absent, a symbolic link, or a list of       *)
(* records.  What a writer wrote is readable once Branch.run has returned: *)
(* a writer that is not closed is released at the return, which flushes it.*)
(***************************************************************************)
NoFile == [exists |-> FALSE, link |-> "", data |-> <<>>]
EmptyFile == [exists |-> TRUE, link |-> "", data |-> <<>>]

Append1(fs, path, recs) ==
    [fs EXCEPT ![path] = [exists |-> TRUE, link |-> "", data |-> @.data \o recs]]

\* Utils.ln(src, dst): dst becomes a link to src.
ln(fs, src, dst) == [fs EXCEPT ![dst] = [exists |-> TRUE, link |-> src, data |-> <<>>]]

Exists(path) ==
    /\ files[path].exists
    /\ files[path].link # "" => files[files[path].link].exists

Read(path) ==
    IF files[path].link # "" THEN files[files[path].link].data ELSE files[path].data

Writers == {"ignored_ids_writer", "good_gff_writer", "bad_gff_writer", "group_writer"}

Call(fn, gff, group, out1, out2, flag, bad) ==
    [fn |-> fn, gff |-> gff, group |-> group, out1 |-> out1, out2 |-> out2,
     flag |-> flag, bad |-> bad]

(***************************************************************************)
(* The inputs: a stream sorted by (reference, start), and the options.     *)
(***************************************************************************)
Streams ==
    {s \in UNION {[1..n -> 1..Len(Catalogue)] : n \in 0..MaxRecs} :
        \A i \in 1..(Len(s) - 1) : s[i] <= s[i + 1]}

Configs ==
    [allow_extra_5exon : BOOLEAN,
     max_fuzzy_junction : 0..MaxFuzzy,
     min_flnc_coverage : {1, 2},
     valid : BOOLEAN]

ChainIdle ==
    /\ chain = <<>> /\ ccfg = <<>> /\ cpc = "idle" /\ o = <<>> /\ fi = 0
    /\ folds = <<>> /\ mega = <<>> /\ cexists = {} /\ abundance_info = <<>>
    /\ mega_info_d = <<>> /\ rowi = 0 /\ walk = <<>>
    /\ out_ids = <<>> /\ out_counts = <<>>

CountIdle ==
    /\ cin = <<>> /\ kpc = "idle" /\ prefix_dict = <<>> /\ raised = ""
    /\ read_stat = <<>> /\ abund = <<>>

GroupIOIdle ==
    /\ grec = <<>> /\ gpc = "idle" /\ gparsed = <<>> /\ gfile = <<>> /\ gread = <<>>

MegaIOIdle ==
    /\ mwin = <<>> /\ mwpc = "idle" /\ mwargs = <<>> /\ mwops = <<>>
    /\ mwraised = "" /\ mwread = <<>>

IceIdle ==
    /\ icein = <<>> /\ ipc = "idle" /\ isrc = <<>> /\ ii = 0 /\ iraised = ""
    /\ icelog = <<>> /\ merged = <<>> /\ ret = -1

IoIdle == GroupIOIdle /\ MegaIOIdle /\ IceIdle

InitCollapse ==
    /\ cfg \in Configs
    /\ sam \in Streams
    /\ cfg.valid \/ sam = <<>>
    /\ pc = "start"
    /\ pos = 0
    /\ pending = <<>>
    /\ cuff_index = 0
    /\ files = [p \in Paths |-> NoFile]
    /\ closes = [w \in Writers |-> 0]
    /\ calls = <<>>
    /\ unions = {}
    /\ ChainIdle
    /\ CountIdle
    /\ IoIdle

(***************************************************************************)
(* iter_gmap_sam (source not at hand; design document 4.1): a generator    *)
(* over the stream.  Each call reads on from record i, writes the          *)
(* ids of the records below the coverage/identity thresholds to the        *)
(* ignored-ids file and yields the next region: the records of one         *)
(* reference whose spans overlap transitively, split by strand.            *)
(***************************************************************************)
\* The rank of a reference id in the sort order of the stream.
RefRank(ref) == IF ref = "chr1" THEN 1 ELSE 2

\* Record r comes before record prev in (reference id, reference start) order.
OutOfOrder(prev, r) ==
    \/ RefRank(r.ref) < RefRank(prev.ref)
    \/ r.ref = prev.ref /\ Start(r.exons) < Start(prev.exons)

\* The generator checks each record it reads against the one before it and
\* raises on an ordering violation, before it does anything else with it.
RECURSIVE Scan(_, _, _, _)
Scan(i, region, maxend, ign) ==
    IF i > Len(sam)
    THEN [consumed |-> Len(sam), region |-> region, ign |-> ign, unsorted |-> FALSE]
    ELSE LET r == Rec(i)
         IN  IF i > 1 /\ OutOfOrder(Rec(i - 1), r)
             THEN [consumed |-> i - 1, region |-> <<>>, ign |-> ign, unsorted |-> TRUE]
             ELSE IF ~r.ok THEN Scan(i + 1, region, maxend, ign \o <<i>>)
             ELSE IF region = <<>> THEN Scan(i + 1, <<i>>, End(r.exons), ign)
             ELSE IF r.ref = Rec(region[1]).ref /\ Start(r.exons) <= maxend
                  THEN Scan(i + 1, region \o <<i>>,
                            IF End(r.exons) > maxend THEN End(r.exons) ELSE maxend, ign)
             ELSE [consumed |-> i - 1, region |-> region, ign |-> ign,
                   unsorted |-> FALSE]

OfStrand(region, strand) == SelectSeq(region, LAMBDA i : Rec(i).strand = strand)

\* recs.itervalues(): the strand groups of a region, in the order in which a
\* CPython 2 dict holding the keys '+' and '-' yields them.
DictOrder == <<"+", "-">>

StrandGroups(region) ==
    IF region = <<>> THEN <<>>
    ELSE <<OfStrand(region, DictOrder[1]), OfStrand(region, DictOrder[2])>>

(***************************************************************************)
(* collapse_sam_records (source not at hand; design document 4.2): the     *)
(* records of one group are joined by union-find at junction tolerance 0;  *)
(* each class becomes one collapsed record PB.<cuff_index>.<k>, written to *)
(* the good GFF when its support reaches the threshold and to the bad GFF  *)
(* otherwise, and one group record listing its members.                    *)
(***************************************************************************)
GroupRecs(records) == [i \in 1..Len(records) |-> Rec(records[i])]

Collapsed(records, index, allow_extra_5exon) ==
    LET rs == GroupRecs(records)
        cs == ClassSeq(Classes(Edges(rs, allow_extra_5exon, 0), Len(rs)))
    IN  [k \in 1..Len(cs) |->
            LET best == rs[Longest(cs[k], rs)]
            IN  [seqid |-> <<index, k>>, ref |-> best.ref, strand |-> best.strand,
                 exons |-> best.exons,
                 members |-> [j \in 1..Cardinality(cs[k]) |-> rs[SetToSeq(cs[k])[j]].id]]]

GffRecord(c) == [seqid |-> c.seqid, ref |-> c.ref, strand |-> c.strand, exons |-> c.exons]
GroupRecord(name, members) == [name |-> name, members |-> members]

IsGood(c, cov_threshold) == Len(c.members) >= cov_threshold

collapse_sam_records(fs, records, index, cov_threshold, allow_extra_5exon) ==
    LET cl == Collapsed(records, index, allow_extra_5exon)
        good == SelectSeq(cl, LAMBDA c : IsGood(c, cov_threshold))
        bad == SelectSeq(cl, LAMBDA c : ~IsGood(c, cov_threshold))
        f1 == Append1(fs, good_unfuzzy_gff_fn, [i \in 1..Len(good) |-> GffRecord(good[i])])
        f2 == Append1(f1, bad_unfuzzy_gff_fn, [i \in 1..Len(bad) |-> GffRecord(bad[i])])
    IN  Append1(f2, unfuzzy_group_fn,
                [i \in 1..Len(cl) |-> GroupRecord(cl[i].seqid, cl[i].members)])

\* The pairs of records the union-find of one pass joined directly.
Joined(stage, rs, allow_extra_5exon, fuzz) ==
    {[stage |-> stage, strand |-> rs[e[1]].strand, a |-> rs[e[1]].exons,
      b |-> rs[e[2]].exons, allow |-> allow_extra_5exon, fuzz |-> fuzz] :
        e \in Edges(rs, allow_extra_5exon, fuzz)}

(***************************************************************************)
(* collapse_fuzzy_junctions (source not at hand; design document 4.3): a   *)
(* second union-find over the records of a collapsed GFF, at tolerance     *)
(* max_fuzzy_junction.  Each class is written as the record of its longest *)
(* member, under that member's id, with the union of the members' groups.  *)
(***************************************************************************)
GroupMembers(groups, seqid) ==
    LET hits == {i \in 1..Len(groups) : groups[i].name = seqid}
    IN  IF hits = {} THEN <<>> ELSE groups[CHOOSE i \in hits : \A j \in hits : j <= i].members

FuzzyClasses(rs, allow_extra_5exon, fuzz) ==
    ClassSeq(Classes(Edges(rs, allow_extra_5exon, fuzz), Len(rs)))

FuzzyGff(rs, allow_extra_5exon, fuzz) ==
    LET cs == FuzzyClasses(rs, allow_extra_5exon, fuzz)
    IN  [k \in 1..Len(cs) |-> rs[Longest(cs[k], rs)]]

FuzzyGroups(rs, groups, allow_extra_5exon, fuzz) ==
    LET cs == FuzzyClasses(rs, allow_extra_5exon, fuzz)
    IN  [k \in 1..Len(cs) |->
            GroupRecord(rs[Longest(cs[k], rs)].seqid,
                        Flatten([j \in 1..Cardinality(cs[k]) |->
                                    GroupMembers(groups, rs[SetToSeq(cs[k])[j]].seqid)]))]

collapse_fuzzy_junctions(fs, gff_filename, group_filename, fuzzy_gff_filename, fuzzy_group_filename, allow_extra_5exon, fuzz) ==
    LET rs == Read(gff_filename)
        groups == Read(group_filename)
        f1 == [fs EXCEPT ![fuzzy_gff_filename] =
                  [exists |-> TRUE, link |-> "",
                   data |-> FuzzyGff(rs, allow_extra_5exon, fuzz)]]
    IN  [f1 EXCEPT ![fuzzy_group_filename] =
            [exists |-> TRUE, link |-> "",
             data |-> FuzzyGroups(rs, groups, allow_extra_5exon, fuzz)]]

(***************************************************************************)
(* pick_rep (source not at hand; design document 4.4): one representative  *)
(* per cluster of the group file, the longest member or, with              *)
(* pick_least_err_instead, the member of least estimated error; the first  *)
(* such member on a tie.                                                   *)
(***************************************************************************)
IsoformLen(id) == ExonSum(Rec(id).exons)

PickOne(members, pick_least_err_instead) ==
    LET better(i, j) == IF pick_least_err_instead
                        THEN Rec(members[i]).err < Rec(members[j]).err
                        ELSE IsoformLen(members[i]) > IsoformLen(members[j])
    IN  IF members = <<>> THEN 0
        ELSE members[CHOOSE i \in 1..Len(members) :
                        \A j \in 1..Len(members) :
                            better(i, j) \/ (~better(j, i) /\ i <= j)]

pick_rep(fs, gff_filename, group_filename, output_filename, pick_least_err_instead) ==
    LET groups == Read(group_filename)
    IN  [fs EXCEPT ![output_filename] =
            [exists |-> TRUE, link |-> "",
             data |-> [k \in 1..Len(groups) |->
                          [pbid |-> groups[k].name,
                           rep |-> PickOne(groups[k].members, pick_least_err_instead)]]]]

(***************************************************************************)
(* CollapseIsoformsRunner.run, step by step.                               *)
(***************************************************************************)
\* validate_inputs: the input files exist and the isoform ids are unique.
RunnerValidate ==
    /\ pc = "start"
    /\ pc' = IF cfg.valid THEN "open" ELSE "failed"
    /\ UNCHANGED <<cfg, sam, pos, pending, cuff_index, files, closes,
                   calls, unions>>
    /\ UNCHANGED <<chainVars, countVars, ioVars>>

\* Branch.run opens its four writers and starts the locus counter at 1.
BranchOpen ==
    /\ pc = "open"
    /\ files' = [files EXCEPT ![ignored_ids_txt_fn] = EmptyFile,
                              ![good_unfuzzy_gff_fn] = EmptyFile,
                              ![bad_unfuzzy_gff_fn] = EmptyFile,
                              ![unfuzzy_group_fn] = EmptyFile]
    /\ cuff_index' = 1
    /\ calls' = Append(calls, Call("Branch.run", good_unfuzzy_gff_fn, unfuzzy_group_fn,
                                   ignored_ids_txt_fn, "", cfg.allow_extra_5exon,
                                   bad_unfuzzy_gff_fn))
    /\ pc' = "branch"
    /\ UNCHANGED <<cfg, sam, pos, pending, closes, unions>>
    /\ UNCHANGED <<chainVars, countVars, ioVars>>

\* The outer loop asks iter_gmap_sam for the next region; an ordering
\* violation raised by the generator leaves Branch.run and the runner.
BranchIter ==
    /\ pc = "branch" /\ pending = <<>> /\ pos < Len(sam)
    /\ LET sc == Scan(pos + 1, <<>>, 0, <<>>)
       IN  /\ pos' = sc.consumed
           /\ pending' = IF sc.unsorted THEN <<>> ELSE StrandGroups(sc.region)
           /\ files' = Append1(files, ignored_ids_txt_fn, sc.ign)
           /\ pc' = IF sc.unsorted THEN "failed" ELSE pc
    /\ UNCHANGED <<cfg, sam, cuff_index, closes, calls, unions>>
    /\ UNCHANGED <<chainVars, countVars, ioVars>>

\* A counter that leaves an index out.
CuffIndexPlusTwo(index) == index + 2

\* The locus index of the group after this one.
NextCuffIndex(index) == index + 1

\* A loop that hands every remaining record of the region to the collapser.
CurrentRecordsOfRegion == Flatten(pending)

\* records: the strand group the inner loop is at.
CurrentRecords == Head(pending)

\* A loop that also passes over the groups of a single record.
ShallCollapseSeveral(records) == Len(records) > 1

\* The groups that are collapsed: those holding a record.
ShallCollapse(records) == Len(records) > 0

\* The inner loop collapses a strand group that is not empty.
BranchCollapse ==
    /\ pc = "branch" /\ pending # <<>> /\ ShallCollapse(CurrentRecords)
    /\ files' = collapse_sam_records(files, CurrentRecords, cuff_index,
                                     cfg.min_flnc_coverage, cfg.allow_extra_5exon)
    /\ unions' = unions \cup Joined("unfuzzy", GroupRecs(CurrentRecords),
                                    cfg.allow_extra_5exon, 0)
    /\ cuff_index' = NextCuffIndex(cuff_index)
    /\ pending' = Tail(pending)
    /\ UNCHANGED <<cfg, sam, pc, pos, closes, calls>>
    /\ UNCHANGED <<chainVars, countVars, ioVars>>

\* ... and passes over an empty one.
BranchSkipEmpty ==
    /\ pc = "branch" /\ pending # <<>> /\ ~ShallCollapse(CurrentRecords)
    /\ pending' = Tail(pending)
    /\ UNCHANGED <<cfg, sam, pc, pos, cuff_index, files, closes, calls, unions>>
    /\ UNCHANGED <<chainVars, countVars, ioVars>>

\* The writers Branch.run closes when the stream is exhausted.
ClosedWriters ==
    <<"ignored_ids_writer", "good_gff_writer", "bad_gff_writer", "bad_gff_writer">>

BranchClose ==
    /\ pc = "branch" /\ pending = <<>> /\ pos = Len(sam)
    /\ closes' = [w \in Writers |->
                    closes[w] + Cardinality({i \in 1..Len(ClosedWriters) : ClosedWriters[i] = w})]
    /\ pc' = "collapsed"
    /\ UNCHANGED <<cfg, sam, pos, pending, cuff_index, files, calls, unions>>
    /\ UNCHANGED <<chainVars, countVars, ioVars>>

\* Constants.MAX_FUZZY_JUNCTION_DEFAULT
MAX_FUZZY_JUNCTION_DEFAULT == 5

\* Calls of collapse_fuzzy_junctions with a wrong argument: the bad GFF as
\* input, the option allow_extra_5exon always on, the default tolerance.
FuzzyInBadGff == bad_unfuzzy_gff_fn
FuzzyAllow5Always == TRUE
FuzzyMaxDefault == MAX_FUZZY_JUNCTION_DEFAULT

\* The arguments of the call of collapse_fuzzy_junctions.
FuzzyInGff == good_unfuzzy_gff_fn
FuzzyInGroup == unfuzzy_group_fn
FuzzyAllow5 == cfg.allow_extra_5exon
FuzzyMax == cfg.max_fuzzy_junction

\* The files linked as the final good GFF and group file.
FinalGffSource == IF shall_collapse_fuzzy_junctions THEN good_fuzzy_gff_fn
                  ELSE good_unfuzzy_gff_fn
FinalGroupSource == IF shall_collapse_fuzzy_junctions THEN fuzzy_group_fn
                    ELSE unfuzzy_group_fn

RunnerFuzzy ==
    /\ pc = "collapsed" /\ shall_collapse_fuzzy_junctions
    /\ LET f1 == collapse_fuzzy_junctions(files, FuzzyInGff, FuzzyInGroup,
                                          good_fuzzy_gff_fn, fuzzy_group_fn,
                                          FuzzyAllow5, FuzzyMax)
           f2 == ln(f1, FinalGffSource, good_gff_fn)
       IN  files' = ln(f2, FinalGroupSource, group_fn)
    /\ unions' = unions \cup Joined("fuzzy", Read(FuzzyInGff), FuzzyAllow5, FuzzyMax)
    /\ calls' = Append(calls, Call("collapse_fuzzy_junctions", FuzzyInGff, FuzzyInGroup,
                                   good_fuzzy_gff_fn, fuzzy_group_fn, FuzzyAllow5, ""))
    /\ pc' = "linked"
    /\ UNCHANGED <<cfg, sam, pos, pending, cuff_index, closes>>
    /\ UNCHANGED <<chainVars, countVars, ioVars>>

RunnerLink ==
    /\ pc = "collapsed" /\ ~shall_collapse_fuzzy_junctions
    /\ files' = ln(ln(files, FinalGffSource, good_gff_fn), FinalGroupSource, group_fn)
    /\ pc' = "linked"
    /\ UNCHANGED <<cfg, sam, pos, pending, cuff_index, closes, calls, unions>>
    /\ UNCHANGED <<chainVars, countVars, ioVars>>

\* The policy the wrong way round.
pick_least_err_inverted == cfg.allow_extra_5exon

pick_least_err_instead == ~cfg.allow_extra_5exon

RunnerPickRep ==
    /\ pc = "linked"
    /\ files' = pick_rep(files, good_gff_fn, group_fn, collapsed_isoform_filename,
                         pick_least_err_instead)
    /\ calls' = Append(calls, Call("pick_rep", good_gff_fn, group_fn,
                                   collapsed_isoform_filename, "",
                                   pick_least_err_instead, bad_gff_fn))
    /\ pc' = "done"
    /\ UNCHANGED <<cfg, sam, pos, pending, cuff_index, closes, unions>>
    /\ UNCHANGED <<chainVars, countVars, ioVars>>

NextCollapse ==
    \/ RunnerValidate
    \/ BranchOpen
    \/ BranchIter
    \/ BranchCollapse
    \/ BranchSkipEmpty
    \/ BranchClose
    \/ RunnerFuzzy
    \/ RunnerLink
    \/ RunnerPickRep

SpecCollapse == InitCollapse /\ [][NextCollapse]_vars

(***************************************************************************)
(* What a finished collapse run left behind.                               *)
(***************************************************************************)
Collapsed_ == pc \in {"linked", "done"}

Names(gff) == {gff[i].seqid : i \in 1..Len(gff)}

\* The clusters of a group file that a GFF file lists.
ClustersOf(groupPath, gffPath) ==
    {i \in 1..Len(Read(groupPath)) : Read(groupPath)[i].name \in Names(Read(gffPath))}

GoodClusters == ClustersOf(group_fn, good_gff_fn)
BadClusters == ClustersOf(unfuzzy_group_fn, bad_unfuzzy_gff_fn)

Occurrences(members, id) == Cardinality({j \in 1..Len(members) : members[j] = id})

InGood(id) == {i \in GoodClusters : id \in Range(Read(group_fn)[i].members)}
InBad(id) == {i \in BadClusters : id \in Range(Read(unfuzzy_group_fn)[i].members)}
InIgnored(id) ==
    {i \in 1..Len(Read(ignored_ids_txt_fn)) : Read(ignored_ids_txt_fn)[i] = id}

\* C1: after the collapse stage (Branch.run, then the fuzzy pass if any) every
\* raw record id sits in exactly one place: one good cluster's group, one bad
\* cluster, or the ignored-ids list; none is dropped, none is placed twice.
C1_Completeness ==
    Collapsed_ =>
        \A id \in RecIds :
            /\ Cardinality(InGood(id)) + Cardinality(InBad(id))
                   + Cardinality(InIgnored(id)) = 1
            /\ \A i \in InGood(id) : Occurrences(Read(group_fn)[i].members, id) = 1
            /\ \A i \in InBad(id) : Occurrences(Read(unfuzzy_group_fn)[i].members, id) = 1

\* A run with a fuzzy pass that left a good cluster, a bad one and an ignored id.
C1_Witness ==
    /\ pc = "done" /\ shall_collapse_fuzzy_junctions
    /\ \E a, b, c \in RecIds : InGood(a) # {} /\ InBad(b) # {} /\ InIgnored(c) # {}

DisjointGroups(groups) ==
    \A i, j \in 1..Len(groups) :
        i # j => Range(groups[i].members) \cap Range(groups[j].members) = {}

\* C6: in the group file of one collapsing stage (unfuzzy, fuzzy) no raw record
\* is a member of two clusters.
C6_GroupsDisjoint ==
    /\ DisjointGroups(files[unfuzzy_group_fn].data)
    /\ DisjointGroups(files[fuzzy_group_fn].data)

\* Both group files hold several clusters, and the fuzzy pass merged two.
C6_Witness ==
    /\ pc = "done"
    /\ Len(files[fuzzy_group_fn].data) >= 2
    /\ Len(files[unfuzzy_group_fn].data) > Len(files[fuzzy_group_fn].data)

FuzzyCalls == {i \in 1..Len(calls) : calls[i].fn = "collapse_fuzzy_junctions"}

\* C7: with max_fuzzy_junction = 0 the fuzzy merge is never called and the final
\* good GFF and group file are links to the unfuzzy files; with
\* max_fuzzy_junction > 0 they are links to the files the fuzzy merge wrote.
C7_FuzzyNoOp ==
    /\ cfg.max_fuzzy_junction = 0 =>
          /\ FuzzyCalls = {}
          /\ ~files[good_fuzzy_gff_fn].exists /\ ~files[fuzzy_group_fn].exists
          /\ Collapsed_ =>
                /\ files[good_gff_fn].link = good_unfuzzy_gff_fn
                /\ files[group_fn].link = unfuzzy_group_fn
                /\ Read(good_gff_fn) = files[good_unfuzzy_gff_fn].data
                /\ Read(group_fn) = files[unfuzzy_group_fn].data
    /\ cfg.max_fuzzy_junction > 0 /\ Collapsed_ =>
          /\ Cardinality(FuzzyCalls) = 1
          /\ files[good_gff_fn].link = good_fuzzy_gff_fn
          /\ files[group_fn].link = fuzzy_group_fn
          /\ files[good_fuzzy_gff_fn].exists /\ files[fuzzy_group_fn].exists

\* A finished run without fuzzy pass whose final files list a cluster.
C7_Witness ==
    /\ pc = "done" /\ cfg.max_fuzzy_junction = 0
    /\ Len(Read(good_gff_fn)) > 0 /\ Len(Read(group_fn)) > 0

(***************************************************************************)
(* The fuzzy pass, seen from its input (the unfuzzy good GFF and group     *)
(* file) and its output (the fuzzy GFF and group file).                    *)
(***************************************************************************)
FuzzyRan == Collapsed_ /\ shall_collapse_fuzzy_junctions
FuzzyIn == files[good_unfuzzy_gff_fn].data
FuzzyOut == files[good_fuzzy_gff_fn].data
FuzzyOutGroups == files[fuzzy_group_fn].data

\* The raw members of collapsed transcript i of the fuzzy pass's input.
MembersOf(i) == Range(GroupMembers(files[unfuzzy_group_fn].data, FuzzyIn[i].seqid))

\* The transcripts of the input that output cluster k absorbed.
Absorbed(k) ==
    {i \in 1..Len(FuzzyIn) : MembersOf(i) \subseteq Range(FuzzyOutGroups[k].members)}

\* The junctions of two chains that correspond are those counted from the 3'
\* end: from the right on the + strand, from the left on the - strand.
WithinBound(a, b, strand, fuzz) ==
    LET ja == Junctions(a)
        jb == Junctions(b)
        n == IF Len(ja) < Len(jb) THEN Len(ja) ELSE Len(jb)
    IN  \A t \in 1..n :
            IF strand = "+"
            THEN JunctionClose(ja[Len(ja) - n + t], jb[Len(jb) - n + t], fuzz)
            ELSE JunctionClose(ja[t], jb[t], fuzz)

SameLocus(r1, r2) == r1.ref = r2.ref /\ r1.strand = r2.strand

\* C5 as stated: two collapsed transcripts share an output cluster of the fuzzy
\* pass only if they are on the same reference and strand and every pair of
\* corresponding junctions differs by at most max_fuzzy_junction.
C5_PairwiseBound ==
    FuzzyRan =>
        \A k \in 1..Len(FuzzyOutGroups) : \A i, j \in Absorbed(k) :
            /\ SameLocus(FuzzyIn[i], FuzzyIn[j])
            /\ WithinBound(FuzzyIn[i].exons, FuzzyIn[j].exons, FuzzyIn[i].strand,
                           cfg.max_fuzzy_junction)

CloseEdges ==
    {e \in (1..Len(FuzzyIn)) \X (1..Len(FuzzyIn)) :
        /\ SameLocus(FuzzyIn[e[1]], FuzzyIn[e[2]])
        /\ WithinBound(FuzzyIn[e[1]].exons, FuzzyIn[e[2]].exons, FuzzyIn[e[1]].strand,
                       cfg.max_fuzzy_junction)}

\* C5, amended: two collapsed transcripts are joined directly only if they are
\* on the same reference and strand and every pair of corresponding junctions
\* differs by at most max_fuzzy_junction; two transcripts share an output
\* cluster only if they are on the same reference and strand and a chain of
\* transcripts, each within that bound of the next, links them.
C5_ChainedBound ==
    /\ \A u \in unions :
          u.stage = "fuzzy" => WithinBound(u.a, u.b, u.strand, cfg.max_fuzzy_junction)
    /\ FuzzyRan =>
          \A k \in 1..Len(FuzzyOutGroups) : \A i, j \in Absorbed(k) :
              /\ SameLocus(FuzzyIn[i], FuzzyIn[j])
              /\ j \in Component({i}, CloseEdges, Len(FuzzyIn))

\* An output cluster holding two transcripts whose junctions differ by more
\* than the tolerance.
C5_Witness ==
    /\ pc = "done" /\ shall_collapse_fuzzy_junctions
    /\ \E k \in 1..Len(FuzzyOutGroups) : \E i, j \in Absorbed(k) :
           ~WithinBound(FuzzyIn[i].exons, FuzzyIn[j].exons, FuzzyIn[i].strand,
                        cfg.max_fuzzy_junction)

\* The two chains end on the same 3' junction.
SharesThreePrime(a, b, strand, fuzz) ==
    LET ja == Junctions(a)
        jb == Junctions(b)
    IN  /\ Len(ja) > 0 /\ Len(jb) > 0
        /\ IF strand = "+" THEN JunctionClose(ja[Len(ja)], jb[Len(jb)], fuzz)
           ELSE JunctionClose(ja[1], jb[1], fuzz)

SameUnfuzzyCluster(i, j) ==
    \E k \in 1..Len(files[unfuzzy_group_fn].data) :
        {i, j} \subseteq Range(files[unfuzzy_group_fn].data[k].members)

\* C8: two chains in a containment relation are joined only when the option
\* allow_extra_5exon is on and the shorter lacks 5' exons (the two end on the
\* same 3' junction); a subset truncated at the 3' end is never joined;
\* chains classified exact are always joined.
C8_MergePolicy ==
    /\ \A u \in unions :
          compare_fuzzy_junctions(u.a, u.b, u.fuzz) # "exact" =>
              /\ compare_fuzzy_junctions(u.a, u.b, u.fuzz) \in {"subset", "super"}
              /\ cfg.allow_extra_5exon
              /\ SharesThreePrime(u.a, u.b, u.strand, u.fuzz)
    /\ Collapsed_ =>
          \A i, j \in RecIds :
              /\ Rec(i).ok /\ Rec(j).ok /\ SameLocus(Rec(i), Rec(j))
              /\ compare_fuzzy_junctions(Rec(i).exons, Rec(j).exons, 0) = "exact"
              => SameUnfuzzyCluster(i, j)
    /\ FuzzyRan =>
          \A i, j \in 1..Len(FuzzyIn) :
              /\ SameLocus(FuzzyIn[i], FuzzyIn[j])
              /\ compare_fuzzy_junctions(FuzzyIn[i].exons, FuzzyIn[j].exons,
                                         cfg.max_fuzzy_junction) = "exact"
              => \E k \in 1..Len(FuzzyOutGroups) : {i, j} \subseteq Absorbed(k)

\* A run that joined a 5'-truncated chain to its superset while the stream
\* also held a chain truncated at the 3' end of another.
C8_Witness ==
    /\ pc = "done"
    /\ \E u \in unions : compare_fuzzy_junctions(u.a, u.b, u.fuzz) \in {"subset", "super"}
    /\ \E i, j \in RecIds :
          /\ SameLocus(Rec(i), Rec(j))
          /\ compare_fuzzy_junctions(Rec(i).exons, Rec(j).exons, 0) = "subset"
          /\ ~SharesThreePrime(Rec(i).exons, Rec(j).exons, Rec(i).strand, 0)
          /\ ~SameUnfuzzyCluster(i, j)

\* The pairs of transcripts of the fuzzy pass's input that it may merge.
MergeablePairs ==
    {e \in (1..Len(FuzzyIn)) \X (1..Len(FuzzyIn)) :
        /\ e[1] < e[2]
        /\ Mergeable(FuzzyIn[e[1]], FuzzyIn[e[2]], cfg.allow_extra_5exon,
                     cfg.max_fuzzy_junction)}

\* Neither transcript of the pair is mergeable with a third one.
Isolated(e) == \A f \in MergeablePairs : f = e \/ {f[1], f[2]} \cap {e[1], e[2]} = {}

\* No transcript of the pair is longer than r: none has more exons, nor as
\* many exons and a longer span.
LongerOf(r, e) ==
    /\ r \in {FuzzyIn[e[1]], FuzzyIn[e[2]]}
    /\ \A i \in {e[1], e[2]} :
          \/ Len(FuzzyIn[i].exons) < Len(r.exons)
          \/ Len(FuzzyIn[i].exons) = Len(r.exons) /\ Span(FuzzyIn[i]) <= Span(r)

\* The input is k pairs, mergeable within and not across.
DisjointPairs ==
    /\ \A e \in MergeablePairs : Isolated(e)
    /\ \A i \in 1..Len(FuzzyIn) : \E e \in MergeablePairs : i \in {e[1], e[2]}

\* C9: when collapse_fuzzy_junctions merges a pair of mergeable transcripts,
\* its output holds exactly one record for the pair, and that record is the
\* input record of the longer (superset) member; from k disjoint mergeable
\* pairs it writes exactly k records.
C9_PairToLonger ==
    FuzzyRan =>
        /\ Len(FuzzyOut) = Len(FuzzyOutGroups)
        /\ \A e \in MergeablePairs :
              /\ Cardinality({k \in 1..Len(FuzzyOutGroups) :
                                 Absorbed(k) \cap {e[1], e[2]} # {}}) = 1
              /\ Isolated(e) =>
                    \E k \in 1..Len(FuzzyOut) :
                        /\ Absorbed(k) = {e[1], e[2]}
                        /\ FuzzyOutGroups[k].name = FuzzyOut[k].seqid
                        /\ LongerOf(FuzzyOut[k], e)
        /\ DisjointPairs => Len(FuzzyOut) = Cardinality(MergeablePairs)

\* Two disjoint pairs, one a 5'-truncated subset and its superset, merged
\* into two records.
C9_Witness ==
    /\ pc = "done" /\ shall_collapse_fuzzy_junctions /\ DisjointPairs
    /\ Cardinality(MergeablePairs) = 2
    /\ \E e \in MergeablePairs :
          Len(FuzzyIn[e[1]].exons) # Len(FuzzyIn[e[2]].exons)

Reps == files[collapsed_isoform_filename].data

\* C10: the run picks one representative per cluster of the final group file,
\* a member of the cluster: the longest member when allow_extra_5exon is on,
\* the member of least estimated error when it is off.
C10_RepresentativePolicy ==
    pc = "done" =>
        /\ Len(Reps) = Len(Read(group_fn))
        /\ \A k \in 1..Len(Reps) :
              LET members == Range(Read(group_fn)[k].members)
              IN  /\ Reps[k].pbid = Read(group_fn)[k].name
                  /\ Reps[k].rep \in members
                  /\ cfg.allow_extra_5exon =>
                        \A m \in members : IsoformLen(m) <= IsoformLen(Reps[k].rep)
                  /\ ~cfg.allow_extra_5exon =>
                        \A m \in members : Rec(Reps[k].rep).err <= Rec(m).err
        /\ \A k, l \in 1..Len(Reps) : Reps[k].pbid = Reps[l].pbid => k = l

\* A finished run with a cluster whose longest member is not its member of
\* least error.
C10_Witness ==
    /\ pc = "done"
    /\ \E k \in 1..Len(Reps) : \E m \in Range(Read(group_fn)[k].members) :
          \/ ~cfg.allow_extra_5exon /\ IsoformLen(m) > IsoformLen(Reps[k].rep)
          \/ cfg.allow_extra_5exon /\ Rec(m).err < Rec(Reps[k].rep).err


(***************************************************************************)
(*                              chain_samples                              *)
(***************************************************************************)
\* The longest chain, and the most transcripts all its samples hold together.
MaxSamples == 4
MaxTranscripts == 4
\* The number of collapsed transcripts of one sample.
TranscriptCounts == {0, 1, 2}

NA == "NA"
SampleName(i) == "s" \o ToString(i)
Pbid(i) == "PB." \o ToString(i) \o ".1"

\* ChainFiles
o_prefix(sample_name) == "tmp_" \o sample_name
o_gff_fn(sample_name) == o_prefix(sample_name) \o ".gff"
o_group_fn(sample_name) == o_prefix(sample_name) \o ".group.txt"
o_mega_fn(sample_name) == o_prefix(sample_name) \o ".mega_info.txt"

\* SampleFiles (source not at hand; design document 3 and 6): each sample
\* names a GFF path, a group path and an abundance path.
sample_gff_fn(name) == name \o ".collapsed.gff"
sample_group_fn(name) == name \o ".collapsed.group.txt"
sample_abundance_fn(name) == name \o ".collapsed.abundance.txt"

chained_ids_fn == "all_samples.chained_ids.txt"
chained_count_fn == "all_samples.chained_count.txt"
chained_gff_fn == "all_samples.chained.gff"

\* The abundance the file of sample i records for its j-th transcript.
Count(i, j) == 2 * i + j - 2

\* "%.4e" % n, for the abundances above.
Fmt(n) ==
    IF n < 10 THEN ToString(n) \o ".0000e+00"
    ELSE ToString(n \div 10) \o "." \o ToString(n % 10) \o "000e+01"

NoAbundance == [na |-> TRUE, n |-> 0]
Abundance(n) == [na |-> FALSE, n |-> n]

\* One sample of the chain config: its collapsed transcript ids, the rows of
\* its abundance file (pbid -> value of the requested field) and whether the
\* rows carry the requested field at all.
SampleIds(k) == [j \in 1..k |-> Pbid(j)]

\* The abundance file lists every transcript of the sample, or misses the
\* last one.
AbundanceRows(k) ==
    {Range(SampleIds(k)), Range(SampleIds(k)) \ {Pbid(k)}}

\* What a sample's files hold: k transcripts, the transcripts D listed in the
\* abundance file, and whether the rows carry the requested field.
Shapes ==
    {sh \in UNION {{[k |-> k, D |-> D, has_field |-> hf] :
                       D \in AbundanceRows(k), hf \in BOOLEAN} : k \in TranscriptCounts} :
        sh.has_field \/ sh.D = Range(SampleIds(sh.k))}

Sound(sh) == sh.has_field /\ sh.D = Range(SampleIds(sh.k))

SampleInputs(i, sh) ==
    [ids |-> SampleIds(sh.k),
     abund |-> [p \in sh.D |-> Count(i, CHOOSE j \in 1..sh.k : Pbid(j) = p)],
     has_field |-> sh.has_field]

\* The chain configs of n samples, at most one of them with a faulty
\* abundance file.
RECURSIVE Total(_, _)
Total(f, n) == IF n = 0 THEN 0 ELSE f[n].k + Total(f, n - 1)

ChainConfigs(n) ==
    {[i \in 1..n |-> SampleInputs(i, sh[i])] :
        sh \in {f \in [1..n -> Shapes] :
                   /\ \A i, j \in 1..n : ~Sound(f[i]) /\ ~Sound(f[j]) => i = j
                   /\ Total(f, n) <= MaxTranscripts}}

NoMega == [exists |-> FALSE, header |-> <<>>, rows |-> <<>>]
MegaPaths == {o_mega_fn(SampleName(i)) : i \in 1..MaxSamples}

CollapseIdle ==
    /\ cfg = <<>> /\ sam = <<>> /\ pc = "idle" /\ pos = 0 /\ pending = <<>>
    /\ cuff_index = 0 /\ files = <<>> /\ closes = <<>> /\ calls = <<>>
    /\ unions = {}

InitChain ==
    /\ \E n \in 1..MaxSamples :
        /\ chain = [i \in 1..n |-> SampleName(i)]
        /\ ccfg \in ChainConfigs(n)
    /\ cpc = "start"
    /\ o = <<>>
    /\ fi = 0
    /\ folds = <<>>
    /\ mega = [p \in MegaPaths |-> NoMega]
    /\ cexists = {}
    /\ abundance_info = <<>>
    /\ mega_info_d = <<>>
    /\ rowi = 0
    /\ walk = <<>>
    /\ out_ids = <<>>
    /\ out_counts = <<>>
    /\ CollapseIdle
    /\ CountIdle
    /\ IoIdle


(***************************************************************************)
(* MegaPBTree (source not at hand; design document 4.5).  The tree holds   *)
(* the accumulated transcripts.  add_sample matches them against the new   *)
(* sample's transcripts, each to at most one, and records for every        *)
(* resulting mega transcript the accumulated parent and the new sample's   *)
(* transcript, either of which may be absent but never both.               *)
(***************************************************************************)
MegaPBTree(gff_filename, group_filename, self_prefix, ids) ==
    [gff_filename |-> gff_filename, group_filename |-> group_filename,
     self_prefix |-> self_prefix, ids |-> ids]

Matchings(a, b) ==
    {m \in [1..a -> 0..b] :
        \A i, j \in 1..a : m[i] # 0 /\ m[i] = m[j] => i = j}

MergeGroupOperation(pbid, group1, group2) ==
    [pbid |-> pbid, group1 |-> group1, group2 |-> group2]

None == "<None>"

\* The operations of one fold step, the accumulated transcripts first.
MergeOperations(acc, new, m) ==
    LET rest == SetToSeq({j \in 1..Len(new) : \A i \in DOMAIN m : m[i] # j})
    IN  [i \in 1..(Len(acc) + Len(rest)) |->
            IF i <= Len(acc)
            THEN MergeGroupOperation(Pbid(i), acc[i],
                                     IF m[i] = 0 THEN None ELSE new[m[i]])
            ELSE MergeGroupOperation(Pbid(i), None, new[rest[i - Len(acc)]])]

\* A printing that treats an absent parent as any other value.
to_str_of_any(group) == group

\* MergeGroupOperation.__str__
to_str(group) == IF group = None THEN "NA" ELSE group
OperationStr(op) == <<to_str(op.pbid), to_str(op.group1), to_str(op.group2)>>

\* MegaInfoWriter: the header, then one line per operation.
MegaInfoWriter(prefix1, prefix2, ops) ==
    [exists |-> TRUE,
     header |-> <<"pbid", prefix1, prefix2>>,
     rows   |-> [i \in DOMAIN ops |-> OperationStr(ops[i])]]

\* csv.DictReader: a row as a dict keyed by the header; of two columns of
\* one name the later wins.
RowDict(header, row) ==
    [c \in Range(header) |->
        row[CHOOSE i \in DOMAIN header :
                header[i] = c /\ \A j \in DOMAIN header : header[j] = c => j <= i]]

MegaInfoReader(i_mega_fn) ==
    [i \in DOMAIN mega[i_mega_fn].rows |->
        RowDict(mega[i_mega_fn].header, mega[i_mega_fn].rows[i])]

InputsOf(name) == ccfg[CHOOSE i \in DOMAIN chain : chain[i] = name]

get_abundance_info ==
    [key \in UNION {{<<chain[i], p>> : p \in DOMAIN ccfg[i].abund} : i \in DOMAIN chain}
        |-> InputsOf(key[1]).abund[key[2]]]

get_mega_info_dict(samples) ==
    LET rowsOf(nm) == MegaInfoReader(o_mega_fn(nm))
        keys == UNION {{<<o_prefix(nm), rowsOf(nm)[j]["pbid"]>> :
                            j \in DOMAIN rowsOf(nm)} : nm \in Range(samples)}
    IN  [key \in keys |->
            LET nm == CHOOSE nm \in Range(samples) : o_prefix(nm) = key[1]
                j  == CHOOSE j \in DOMAIN rowsOf(nm) :
                        /\ rowsOf(nm)[j]["pbid"] = key[2]
                        /\ \A l \in DOMAIN rowsOf(nm) :
                               rowsOf(nm)[l]["pbid"] = key[2] => l <= j
            IN  rowsOf(nm)[j]]

\* A reader that finds the field on every record.
LacksFieldNever(i) == FALSE

\* not hasattr(r, field_to_use), for some record r of sample i's abundance
\* file: the file has a record and its header lacks the column.
LacksField(i) == DOMAIN ccfg[i].abund # {} /\ ~ccfg[i].has_field

\* ---- chain_samples: abundances of all samples, then the first tree ----
CS_GetAbundance ==
    /\ cpc = "start"
    /\ IF \E i \in DOMAIN chain : LacksField(i)
       THEN /\ cpc' = "failed"
            /\ UNCHANGED <<abundance_info, o, fi>>
       ELSE /\ abundance_info' = get_abundance_info
            /\ o' = MegaPBTree(sample_gff_fn(chain[1]), sample_group_fn(chain[1]),
                               chain[1], ccfg[1].ids)
            /\ fi' = 1
            /\ cpc' = "fold"
    /\ UNCHANGED <<chain, ccfg, folds, mega, cexists, mega_info_d, rowi, walk,
                   out_ids, out_counts>>
    /\ UNCHANGED <<collapseVars, countVars, ioVars>>

\* cfg.samples[0:], every sample of the config
AllSamples(samples) == samples
\* cfg.samples[1:], the samples that are folded
FoldedSamples(samples) == Tail(samples)

\* ---- one turn of the fold loop ----
CS_Fold ==
    /\ cpc = "fold"
    /\ fi <= Len(FoldedSamples(chain))
    /\ LET name == FoldedSamples(chain)[fi]
           new  == InputsOf(name).ids
       IN  \E m \in Matchings(Len(o.ids), Len(new)) :
             LET ops == MergeOperations(o.ids, new, m) IN
             /\ mega' = [mega EXCEPT ![o_mega_fn(name)] =
                            MegaInfoWriter(o.self_prefix, name, ops)]
             /\ cexists' = cexists \cup {o_gff_fn(name), o_group_fn(name)}
             /\ folds' = Append(folds,
                    [self_gff |-> o.gff_filename, self_group |-> o.group_filename,
                     self_prefix |-> o.self_prefix,
                     gff_filename |-> sample_gff_fn(name),
                     group_filename |-> sample_group_fn(name),
                     sample_prefix |-> name,
                     o_gff_fn |-> o_gff_fn(name), o_group_fn |-> o_group_fn(name),
                     o_mega_fn |-> o_mega_fn(name)])
             /\ o' = MegaPBTree(o_gff_fn(name), o_group_fn(name), o_prefix(name),
                                [i \in DOMAIN ops |-> ops[i].pbid])
    /\ fi' = fi + 1
    /\ UNCHANGED <<chain, ccfg, cpc, abundance_info, mega_info_d, rowi, walk,
                   out_ids, out_counts>>
    /\ UNCHANGED <<collapseVars, countVars, ioVars>>

OutputHeader == <<"superPBID">> \o chain

\* ---- after the loop: the mega-info of every step, the output headers,
\* ---- and the reader over the last step's mega-info
CS_OpenOutputs ==
    /\ cpc = "fold"
    /\ fi > Len(FoldedSamples(chain))
    /\ IF \E nm \in Range(Tail(chain)) : ~mega[o_mega_fn(nm)].exists
       THEN /\ cpc' = "failed"
            /\ UNCHANGED <<mega_info_d, out_ids, out_counts, cexists, rowi>>
       ELSE /\ mega_info_d' = get_mega_info_dict(Tail(chain))
            /\ out_ids' = <<OutputHeader>>
            /\ out_counts' = <<OutputHeader>>
            /\ cexists' = cexists \cup {chained_ids_fn, chained_count_fn}
            /\ IF mega[o_mega_fn(chain[Len(chain)])].exists
               THEN cpc' = "resolve" /\ rowi' = 1
               ELSE cpc' = "failed" /\ rowi' = rowi
    /\ UNCHANGED <<chain, ccfg, o, fi, folds, mega, abundance_info, walk>>
    /\ UNCHANGED <<collapseVars, countVars, ioVars>>


\* chain[::-1][1:-1]: the samples between the first and the last, backward
WalkOrder(ch) == [i \in 1..(Len(ch) - 2) |-> ch[Len(ch) - i]]

\* abundance_info[c, pbid] raises KeyError
MissingAbundance(c, pbid) == pbid # NA /\ <<c, pbid>> \notin DOMAIN abundance_info

\* if pbid != 'NA': chain_to_abundance[c] = abundance_info[c, pbid]
SetAbundance(d, c, pbid) ==
    IF pbid # NA THEN [d EXCEPT ![c] = Abundance(abundance_info[<<c, pbid>>])] ELSE d

\* A loop that passes the transcript over and goes on.
ChainSkipsRow ==
    /\ cpc' = "resolve"
    /\ rowi' = rowi + 1
    /\ UNCHANGED <<walk, out_ids, out_counts>>

ChainFailed ==
    /\ cpc' = "failed"
    /\ UNCHANGED <<walk, rowi, out_ids, out_counts>>

\* ---- for r in reader: the last sample's id and abundance ----
CS_RowStart ==
    /\ cpc = "resolve"
    /\ rowi <= Len(MegaInfoReader(o_mega_fn(chain[Len(chain)])))
    /\ LET last == chain[Len(chain)]
           r    == MegaInfoReader(o_mega_fn(last))[rowi]
       IN  IF last \notin DOMAIN r \/ MissingAbundance(last, r[last])
           THEN ChainFailed
           ELSE /\ walk' =
                     [r0 |-> r, r |-> r, saw_NA |-> FALSE, k |-> 1,
                      chain_to_pbid |->
                          [[c \in Range(chain) |-> NA] EXCEPT ![last] = r[last]],
                      chain_to_abundance |->
                          SetAbundance([c \in Range(chain) |-> NoAbundance],
                                       last, r[last])]
                /\ cpc' = "walk"
                /\ UNCHANGED <<rowi, out_ids, out_counts>>
    /\ UNCHANGED <<chain, ccfg, o, fi, folds, mega, cexists, abundance_info,
                   mega_info_d>>
    /\ UNCHANGED <<collapseVars, countVars, ioVars>>

\* r2['pbid'], the mega id of the looked-up operation
MegaColumn(r2, c) == r2["pbid"]
\* r2[c], the id of sample c in the looked-up operation
SampleColumn(r2, c) == r2[c]

\* the walk staying on the row it has
KeepRow(r, r2) == r
\* r = r2
Substitute(r, r2) == r2

\* ---- one turn of the backward walk over the samples in between ----
CS_WalkStep ==
    /\ cpc = "walk"
    /\ ~walk.saw_NA
    /\ walk.k <= Len(WalkOrder(chain))
    /\ LET c      == WalkOrder(chain)[walk.k]
           prefix == o_prefix(c)
           r      == walk.r
       IN  IF prefix \notin DOMAIN r
           THEN ChainFailed
           ELSE IF r[prefix] = NA
           THEN /\ walk' = [walk EXCEPT !.saw_NA = TRUE]
                /\ UNCHANGED <<cpc, rowi, out_ids, out_counts>>
           ELSE IF <<prefix, r[prefix]>> \notin DOMAIN mega_info_d
           THEN ChainFailed
           ELSE LET r2 == mega_info_d[<<prefix, r[prefix]>>] IN
                IF c \notin DOMAIN r2 \/ MissingAbundance(c, SampleColumn(r2, c))
                THEN ChainFailed
                ELSE /\ walk' = [walk EXCEPT
                            !.chain_to_pbid[c] = SampleColumn(r2, c),
                            !.chain_to_abundance =
                                SetAbundance(@, c, SampleColumn(r2, c)),
                            !.r = Substitute(r, r2),
                            !.k = @ + 1]
                     /\ UNCHANGED <<cpc, rowi, out_ids, out_counts>>
    /\ UNCHANGED <<chain, ccfg, o, fi, folds, mega, cexists, abundance_info,
                   mega_info_d>>
    /\ UNCHANGED <<collapseVars, countVars, ioVars>>

\* A walk that never looks the first sample up.
FirstSampleSkipped(saw_NA) == FALSE

\* if not saw_NA
FirstSampleResolved(saw_NA) == ~saw_NA

IdsRow(w) == <<w.r0["pbid"]>> \o [i \in DOMAIN chain |-> w.chain_to_pbid[chain[i]]]

\* A count row whose columns run over the chain backward.
CountRowBackward(w) ==
    <<w.r0["pbid"]>> \o
    [i \in DOMAIN chain |->
        IF w.chain_to_abundance[chain[Len(chain) + 1 - i]].na THEN "NA"
        ELSE Fmt(w.chain_to_abundance[chain[Len(chain) + 1 - i]].n)]

CountRow(w) ==
    <<w.r0["pbid"]>> \o
    [i \in DOMAIN chain |->
        IF w.chain_to_abundance[chain[i]].na THEN "NA"
        ELSE Fmt(w.chain_to_abundance[chain[i]].n)]

\* ---- after the walk: the first sample, then one line to each output ----
CS_RowEnd ==
    /\ cpc = "walk"
    /\ walk.saw_NA \/ walk.k > Len(WalkOrder(chain))
    /\ LET first == chain[1] IN
       IF FirstSampleResolved(walk.saw_NA)
          /\ (first \notin DOMAIN walk.r \/ MissingAbundance(first, walk.r[first]))
       THEN ChainFailed
       ELSE LET w == IF FirstSampleResolved(walk.saw_NA)
                     THEN [walk EXCEPT
                             !.chain_to_pbid[first] = walk.r[first],
                             !.chain_to_abundance =
                                 SetAbundance(@, first, walk.r[first])]
                     ELSE walk
            IN  /\ walk' = w
                /\ out_ids' = Append(out_ids, IdsRow(w))
                /\ out_counts' = Append(out_counts, CountRow(w))
                /\ rowi' = rowi + 1
                /\ cpc' = "resolve"
    /\ UNCHANGED <<chain, ccfg, o, fi, folds, mega, cexists, abundance_info,
                   mega_info_d>>
    /\ UNCHANGED <<collapseVars, countVars, ioVars>>

\* ---- the reader is exhausted: close the outputs, copy the last GFF ----
CS_Finish ==
    /\ cpc = "resolve"
    /\ rowi > Len(MegaInfoReader(o_mega_fn(chain[Len(chain)])))
    /\ IF o_gff_fn(chain[Len(chain)]) \in cexists
       THEN cpc' = "done" /\ cexists' = cexists \cup {chained_gff_fn}
       ELSE cpc' = "failed" /\ cexists' = cexists
    /\ UNCHANGED <<chain, ccfg, o, fi, folds, mega, abundance_info, mega_info_d,
                   rowi, walk, out_ids, out_counts>>
    /\ UNCHANGED <<collapseVars, countVars, ioVars>>

NextChain ==
    \/ CS_GetAbundance
    \/ CS_Fold
    \/ CS_OpenOutputs
    \/ CS_RowStart
    \/ CS_WalkStep
    \/ CS_RowEnd
    \/ CS_Finish

SpecChain == InitChain /\ [][NextChain]_vars


(***************************************************************************)
(* What the mega-info files say, read off the files themselves: line t of  *)
(* the last step's file, and below it the line of each earlier step that   *)
(* its accumulated-parent id names.  <<>> where the lineage has ended.     *)
(***************************************************************************)
StepRows(j) == mega[("tmp_" \o chain[j]) \o ".mega_info.txt"].rows

\* The line of step j that the accumulated-parent side of `row` names.
ParentLine(row, j) ==
    IF row = <<>> THEN <<>>
    ELSE IF row[2] = "NA" THEN <<>>
    ELSE LET hits == {i \in DOMAIN StepRows(j) : StepRows(j)[i][1] = row[2]}
         IN  IF hits = {} THEN <<>> ELSE StepRows(j)[CHOOSE i \in hits : TRUE]

\* The lines of steps j, j-1, .. 2 below the line `row` of step j.
RECURSIVE Trace(_, _)
Trace(row, j) ==
    IF j <= 2 THEN (j :> row)
    ELSE (j :> row) @@ Trace(ParentLine(row, j - 1), j - 1)

\* The lineage of line t of the last step: step -> line.
Lineage(t) == Trace(StepRows(Len(chain))[t], Len(chain))

\* What sample i contributed to a lineage: the new-sample side of step i,
\* and for the first sample the accumulated side of step 2.
Contribution(L, i) ==
    LET row == L[IF i = 1 THEN 2 ELSE i] IN
    IF row = <<>> THEN "NA" ELSE IF i = 1 THEN row[2] ELSE row[3]

Resolved == {t \in 1..Len(out_ids) : t >= 2}

\* C2: for every mega transcript and every sample of the chain, the id
\* written to the chained-ids table is NA exactly when the sample
\* contributed nothing to the transcript's lineage at its fold step, an id
\* that is not NA is the id that step's mega-info records for the sample,
\* and a finished run has one line for every mega transcript.
C2_ResolutionSound ==
    /\ \A t \in Resolved :
        LET L == Lineage(t - 1) IN
        /\ out_ids[t][1] = L[Len(chain)][1]
        /\ \A i \in DOMAIN chain :
            /\ out_ids[t][i + 1] = "NA" <=> Contribution(L, i) = "NA"
            /\ out_ids[t][i + 1] # "NA" => out_ids[t][i + 1] = Contribution(L, i)
    /\ cpc = "done" => Len(out_ids) = 1 + Len(StepRows(Len(chain)))

C2_Witness ==
    /\ cpc = "done"
    /\ Len(chain) >= 3
    /\ \E t \in Resolved :
        out_ids[t][2] # "NA" /\ out_ids[t][3] = "NA" /\ out_ids[t][4] # "NA"
    /\ \E t \in Resolved : out_ids[t][2] = "NA" /\ out_ids[t][3] # "NA"

\* The line of step j as the reader hands it over.
StepDict(row, j) ==
    [pbid |-> row[1]]
    @@ ((IF j = 2 THEN chain[1] ELSE "tmp_" \o chain[j - 1]) :> row[2])
    @@ (chain[j] :> row[3])

\* The step whose line the walk holds.
WalkStepNo == Len(chain) - walk.k + 1

\* C3: while a transcript is resolved backward, the walk holds the line of
\* the current step of the transcript's lineage; if the accumulated-parent
\* side of that line is NA the walk stops and every earlier sample, the first
\* included, is reported NA; otherwise the walk goes on with the line of the
\* previous step that the accumulated-parent id names.
C3_WalkStopsAtNA ==
    /\ cpc = "walk" =>
        LET j == WalkStepNo
            L == Lineage(rowi)
        IN  /\ L[j] # <<>>
            /\ walk.r = StepDict(L[j], j)
            /\ \A i \in j..Len(chain) : walk.chain_to_pbid[chain[i]] = L[i][3]
            /\ walk.saw_NA =>
                /\ L[j][2] = "NA"
                /\ \A i \in 1..(j - 1) : walk.chain_to_pbid[chain[i]] = "NA"
    /\ \A t \in Resolved :
        LET L == Lineage(t - 1) IN
        \A j \in 2..Len(chain) :
            L[j] # <<>> =>
                IF L[j][2] = "NA"
                THEN \A i \in 1..(j - 1) : out_ids[t][i + 1] = "NA"
                ELSE IF j = 2
                THEN out_ids[t][2] = L[2][2]
                ELSE /\ L[j - 1] # <<>>
                     /\ L[j - 1][1] = L[j][2]
                     /\ out_ids[t][j] = L[j - 1][3]

C3_Witness ==
    /\ cpc = "walk"
    /\ Len(chain) = 4
    /\ walk.saw_NA
    /\ walk.k = 2
    /\ \E t \in Resolved : out_ids[t][2] # "NA"

\* C4: a chain of N samples is folded in exactly N-1 steps, in the configured
\* order; step k merges sample k onto the accumulated result of step k-1 (for
\* k = 2, onto sample 1's own collapsed set) and writes tmp_<sample k>.gff,
\* tmp_<sample k>.group.txt and tmp_<sample k>.mega_info.txt.
C4_FoldOrder ==
    /\ Len(folds) <= Len(chain) - 1
    /\ cpc \in {"resolve", "walk", "done"} => Len(folds) = Len(chain) - 1
    /\ \A k \in 2..Len(chain) : k - 1 <= Len(folds) =>
        LET f == folds[k - 1] IN
        /\ f.sample_prefix = chain[k]
        /\ f.gff_filename = sample_gff_fn(chain[k])
        /\ f.group_filename = sample_group_fn(chain[k])
        /\ f.self_gff = IF k = 2 THEN sample_gff_fn(chain[1])
                        ELSE ("tmp_" \o chain[k - 1]) \o ".gff"
        /\ f.self_group = IF k = 2 THEN sample_group_fn(chain[1])
                          ELSE ("tmp_" \o chain[k - 1]) \o ".group.txt"
        /\ f.o_gff_fn = ("tmp_" \o chain[k]) \o ".gff"
        /\ f.o_group_fn = ("tmp_" \o chain[k]) \o ".group.txt"
        /\ f.o_mega_fn = ("tmp_" \o chain[k]) \o ".mega_info.txt"
        /\ {f.o_gff_fn, f.o_group_fn} \subseteq cexists
        /\ mega[f.o_mega_fn].exists
        /\ mega[f.o_mega_fn].header =
               <<"pbid", IF k = 2 THEN chain[1] ELSE "tmp_" \o chain[k - 1], chain[k]>>

C4_Witness ==
    /\ cpc = "done"
    /\ Len(chain) = 4
    /\ Len(folds) = 3
    /\ Len(out_ids) >= 3

(***************************************************************************)
(* What chain_samples has written when it fails or finishes.               *)
(***************************************************************************)
\* Some record of some sample's abundance table lacks the requested field.
FieldMissing == \E i \in DOMAIN chain : DOMAIN ccfg[i].abund # {} /\ ~ccfg[i].has_field

\* No fold step has run and no tmp_ file or chained output exists.
NothingChained ==
    /\ folds = <<>>
    /\ \A p \in DOMAIN mega : ~mega[p].exists
    /\ cexists = {}
    /\ out_ids = <<>> /\ out_counts = <<>>

\* C15: if a record of a sample's abundance table lacks the requested field,
\* chain_samples fails, and at no point of the run has a fold step run or a
\* tmp_ fold file or a chained output file (ids, counts, gff) been created.
C15_FailsBeforeFold ==
    (cpc # "idle" /\ FieldMissing) =>
        /\ cpc \in {"start", "failed"}
        /\ NothingChained

\* chain_samples has failed on the abundance table of a sample that is not
\* the first of the chain, with at least a fold step ahead.
C15_Witness ==
    /\ cpc = "failed" /\ FieldMissing
    /\ Len(chain) >= 2
    /\ DOMAIN ccfg[1].abund # {} /\ ccfg[1].has_field

\* The rows of the last fold step's mega-info, in the reader's order.
LastMegaInfo == MegaInfoReader(o_mega_fn(chain[Len(chain)]))

\* Row t of the two outputs (t = 1 is the header) is the pair of lines
\* written for row t - 1 of the last mega-info.
ParallelRow(t) ==
    /\ Len(out_ids[t]) = Len(chain) + 1
    /\ Len(out_counts[t]) = Len(chain) + 1
    /\ out_ids[t][1] = LastMegaInfo[t - 1]["pbid"]
    /\ out_counts[t][1] = LastMegaInfo[t - 1]["pbid"]
    /\ \A i \in DOMAIN chain :
           LET id == out_ids[t][i + 1]
               n  == out_counts[t][i + 1]
           IN  /\ n = "NA" <=> id = NA
               /\ id # NA =>
                      /\ <<chain[i], id>> \in DOMAIN abundance_info
                      /\ n = Fmt(abundance_info[<<chain[i], id>>])

\* C16: the chained-ids file and the chained-count file have the same header
\* and as many rows; row by row they follow the last fold step's mega-info
\* in its order with its mega id, and per sample the count cell is "NA"
\* exactly when the id cell is "NA" and otherwise the abundance stored under
\* (sample name, that id), written with %.4e.  A finished run has a row for
\* every row of that mega-info.
C16_ParallelOutputs ==
    out_ids # <<>> =>
        /\ Len(out_ids) = Len(out_counts)
        /\ out_ids[1] = OutputHeader /\ out_counts[1] = OutputHeader
        /\ Len(out_ids) <= Len(LastMegaInfo) + 1
        /\ \A t \in 2..Len(out_ids) : ParallelRow(t)
        /\ cpc = "done" => Len(out_ids) = Len(LastMegaInfo) + 1

\* A finished run of three samples whose outputs hold a row with an "NA"
\* cell and a differing pair of counts.
C16_Witness ==
    /\ cpc = "done" /\ Len(chain) = 3
    /\ \E t \in 2..Len(out_ids) :
           /\ \E i \in DOMAIN chain : out_ids[t][i + 1] = NA
           /\ \E i, j \in DOMAIN chain :
                  /\ out_counts[t][i + 1] # "NA" /\ out_counts[t][j + 1] # "NA"
                  /\ out_counts[t][i + 1] # out_counts[t][j + 1]

\* Row m3 of the last mega-info of a chain of three samples descends from a
\* transcript of sample 1 that found no counterpart in sample 2 (first fold)
\* and none in sample 3 (second fold).
OnlyInFirst(m3) ==
    LET mid == o_prefix(chain[2]) IN
    /\ m3[chain[3]] = NA
    /\ m3[mid] # NA
    /\ <<mid, m3[mid]>> \in DOMAIN mega_info_d
    /\ mega_info_d[<<mid, m3[mid]>>][chain[2]] = NA
    /\ mega_info_d[<<mid, m3[mid]>>][chain[1]] # NA

FirstId(m3) == mega_info_d[<<o_prefix(chain[2]), m3[o_prefix(chain[2])]>>][chain[1]]

\* C17: in a chain of 3 samples, the row written for the mega id of a
\* sample-1 transcript without counterpart in samples 2 and 3 holds sample
\* 1's original id, then "NA" twice, and the count row holds sample 1's
\* abundance, then "NA" twice.
C17_OnlyInFirstRow ==
    (Len(chain) = 3 /\ out_ids # <<>>) =>
        \A t \in 2..Len(out_ids) :
            LET m3 == LastMegaInfo[t - 1] IN
            OnlyInFirst(m3) =>
                /\ out_ids[t] = <<m3["pbid"], FirstId(m3), NA, NA>>
                /\ FirstId(m3) \in Range(ccfg[1].ids)
                /\ out_counts[t] =
                       <<m3["pbid"], Fmt(abundance_info[<<chain[1], FirstId(m3)>>]),
                         "NA", "NA">>

\* A finished chain of 3 samples that wrote the row of such a transcript.
C17_Witness ==
    /\ cpc = "done" /\ Len(chain) = 3
    /\ \E t \in 2..Len(out_ids) : OnlyInFirst(LastMegaInfo[t - 1])

(***************************************************************************)
(* The grouping stage on streams in any order.                             *)
(***************************************************************************)
\* The alignments the streams in any order are drawn from: three of one
\* reference and strand (the second overlaps the first and starts before
\* the third) and one of another reference.
AnyOrderCatalogue == {1, 8, 10, 11}

AnyOrderStreams == UNION {[1..n -> AnyOrderCatalogue] : n \in 0..MaxRecs}

InitGrouping ==
    /\ cfg \in Configs
    /\ sam \in AnyOrderStreams
    /\ cfg.valid \/ sam = <<>>
    /\ pc = "start"
    /\ pos = 0
    /\ pending = <<>>
    /\ cuff_index = 0
    /\ files = [p \in Paths |-> NoFile]
    /\ closes = [w \in Writers |-> 0]
    /\ calls = <<>>
    /\ unions = {}
    /\ ChainIdle
    /\ CountIdle
    /\ IoIdle

SpecGrouping == InitGrouping /\ [][NextCollapse]_vars

\* The runs whose inputs pass validate_inputs and in which every cluster is
\* good (min_flnc_coverage = 1): the loci and their indices depend on the
\* sorted stream alone.
InitLoci ==
    /\ InitCollapse
    /\ cfg.valid /\ cfg.min_flnc_coverage = 1

SpecLoci == InitLoci /\ [][NextCollapse]_vars

\* The stream is not sorted by (reference id, reference start).
Unsorted == \E i \in 1..(Len(sam) - 1) : OutOfOrder(Rec(i), Rec(i + 1))

\* The clusters Branch.run has written so far.
GroupsWritten == IF Exists(unfuzzy_group_fn) THEN Read(unfuzzy_group_fn) ELSE <<>>

\* C11: a run of the grouping stage on a stream that is not sorted by
\* (reference id, reference start) never gets past Branch.run, and no group
\* of the unsorted stream is yielded or written as a cluster.
C11_UnsortedAborts ==
    Unsorted =>
        /\ pc \notin {"collapsed", "linked", "done"}
        /\ pending = <<>>
        /\ GroupsWritten = <<>>

(***************************************************************************)
(* The groups Branch.run hands to collapse_sam_records.                    *)
(***************************************************************************)
\* The group the inner loop is about to collapse, as a set of record ids.
Handed ==
    IF pc = "branch" /\ pending # <<>> /\ ShallCollapse(CurrentRecords)
    THEN Range(CurrentRecords) ELSE {}

\* The records that pass the alignment filters.
Kept == {i \in RecIds : Rec(i).ok}

Overlap(i, j) ==
    /\ Rec(i).ref = Rec(j).ref
    /\ Start(Rec(i).exons) <= End(Rec(j).exons)
    /\ Start(Rec(j).exons) <= End(Rec(i).exons)

\* The records of `via` linked to one of `S` by a chain of overlaps in `via`.
RECURSIVE Reach(_, _)
Reach(S, via) ==
    LET more == {j \in via \ S : \E i \in S : Overlap(i, j)}
    IN  IF more = {} THEN S ELSE Reach(S \cup more, via)

OneLocusStrand(g) ==
    \A i, j \in g : Rec(i).ref = Rec(j).ref /\ Rec(i).strand = Rec(j).strand

SameStrandAs(g) == {j \in Kept : \A i \in g : Rec(j).strand = Rec(i).strand}

\* No kept record of the group's reference and strand outside the group
\* overlaps a record inside it.
Maximal(g) ==
    \A j \in SameStrandAs(g) \ g : \A i \in g : ~Overlap(i, j)

UnfuzzyPaths == {good_unfuzzy_gff_fn, bad_unfuzzy_gff_fn, unfuzzy_group_fn}
FuzzyPaths == {good_fuzzy_gff_fn, bad_fuzzy_gff_fn, fuzzy_group_fn}

\* Branch.run has returned: the steps from here on are the fuzzy pass or the
\* linking, and the picking of representatives.
AfterBranch == pc \in {"collapsed", "linked"}

\* C18: no step of CollapseIsoformsRunner.run after Branch.run changes the
\* unfuzzy good GFF, bad GFF or group file, and no fuzzy output path is an
\* unfuzzy path.
C18_UnfuzzyFrozen ==
    [][/\ FuzzyPaths \cap UnfuzzyPaths = {}
       /\ AfterBranch => \A p \in UnfuzzyPaths : files'[p] = files[p]]_vars

\* The run is over, the fuzzy pass merged two clusters, and the unfuzzy
\* group file still holds them apart.
C18_Witness ==
    /\ pc = "done" /\ shall_collapse_fuzzy_junctions
    /\ Len(Read(fuzzy_group_fn)) < Len(Read(unfuzzy_group_fn))
    /\ files[fuzzy_group_fn].exists /\ files[good_fuzzy_gff_fn].exists

(***************************************************************************)
(* The locus indices Branch.run gave out.                                  *)
(***************************************************************************)
\* The clusters written so far, each named (locus index, isoform index).
Written == IF pc \in {"idle", "start", "open"} THEN <<>> ELSE files[unfuzzy_group_fn].data

IndicesUsed == {Written[i].name[1] : i \in 1..Len(Written)}

\* The records of the group that got locus index n.
Locus(n) ==
    UNION {Range(Written[i].members) : i \in {j \in 1..Len(Written) : Written[j].name[1] = n}}

LeftMost(n) == Min({Start(Rec(i).exons) : i \in Locus(n)})
RefOf(n) == Rec(Min(Locus(n))).ref
StrandOf(n) == Rec(Min(Locus(n))).strand

SameRegion(m, n) == Locus(n) \subseteq Reach(Locus(m), Kept)

\* Group m comes before group n in the stream: its region is read first, or
\* both are of one region and m is the group of strand + (the first value of
\* the region's dict).
StreamBefore(m, n) ==
    IF SameRegion(m, n) THEN StrandOf(m) = DictOrder[1] /\ StrandOf(n) = DictOrder[2]
    ELSE \A i \in Locus(m), j \in Locus(n) : i < j

\* The indices given out are 1, 2, ... up to the counter, in the order of
\* the file, each to one non-empty group of one reference and strand.
SequentialIndices ==
    /\ IndicesUsed = 1..(cuff_index - 1)
    /\ \A i \in 1..(Len(Written) - 1) : Written[i].name[1] <= Written[i + 1].name[1]
    /\ \A n \in IndicesUsed : Locus(n) # {} /\ OneLocusStrand(Locus(n))
    /\ \A m, n \in IndicesUsed : m # n => Locus(m) \cap Locus(n) = {}

\* C19 as stated: the indices are sequential from 1 in stream order, and
\* once Branch.run is over no group with a larger index lies left of one
\* with a smaller index (by reference, then leftmost start).
C19_IndexFollowsCoordinate ==
    /\ SequentialIndices
    /\ pc = "collapsed" =>
           \A m, n \in IndicesUsed :
               m < n =>
                   \/ RefRank(RefOf(m)) < RefRank(RefOf(n))
                   \/ RefOf(m) = RefOf(n) /\ LeftMost(m) <= LeftMost(n)

\* C19, amended: the indices are sequential from 1 with no gap, no repeat
\* and none spent on an empty group, and once Branch.run is over they are
\* seen to follow the order in which the groups left the stream: region by
\* region, and within a region the group of strand + before the group of
\* strand -.
C19_IndexFollowsStream ==
    /\ SequentialIndices
    /\ pc = "collapsed" => \A m, n \in IndicesUsed : m < n => StreamBefore(m, n)

\* Branch.run is over and gave three indices, two of them to the two strands
\* of one region whose strand - group starts left of its strand + group.
C19_Witness ==
    /\ pc = "collapsed"
    /\ Cardinality(IndicesUsed) >= 3
    /\ \E m, n \in IndicesUsed :
           /\ m < n /\ SameRegion(m, n)
           /\ LeftMost(n) < LeftMost(m)

(***************************************************************************)
(* The fuzzy pass at other tolerances.                                     *)
(***************************************************************************)
\* The tolerances compared: up to the largest distance between two
\* junctions of the catalogue that correspond.
Tolerances == 0..(MaxFuzzy + 1)

\* The number of clusters the fuzzy pass makes of the unfuzzy good GFF at
\* tolerance fuzz.
ClustersAt(allow_extra_5exon, fuzz) == Len(FuzzyClasses(FuzzyIn, allow_extra_5exon, fuzz))

\* C20: on the transcripts Branch.run wrote, with allow_extra_5exon fixed,
\* a larger max_fuzzy_junction never gives more clusters than a smaller
\* one (each tolerance is compared with the next); the pass that ran gave
\* no more clusters than any smaller and no fewer than any larger tolerance
\* gives.  Stated where the pass or the linking has just been done: the
\* unfuzzy GFF does not change after Branch.run.
C20_ToleranceMonotonic ==
    pc = "linked" =>
        LET n == [a \in BOOLEAN, f \in Tolerances |-> ClustersAt(a, f)] IN
        /\ \A a \in BOOLEAN : \A f \in Tolerances :
               f + 1 \in Tolerances => n[a, f + 1] <= n[a, f]
        /\ FuzzyRan =>
               \A f \in Tolerances :
                   /\ f <= cfg.max_fuzzy_junction
                          => Len(FuzzyOut) <= n[cfg.allow_extra_5exon, f]
                   /\ f >= cfg.max_fuzzy_junction
                          => Len(FuzzyOut) >= n[cfg.allow_extra_5exon, f]

\* The pass that ran merged more than tolerance 0 does and less than a
\* larger tolerance does.
C20_Witness ==
    /\ FuzzyRan
    /\ Len(FuzzyOut) < ClustersAt(cfg.allow_extra_5exon, 0)
    /\ \E f \in Tolerances : ClustersAt(cfg.allow_extra_5exon, f) < Len(FuzzyOut)

(***************************************************************************)
(* CountRunner: the read status of FL and nFL reads and the abundance      *)
(* report.                                                                 *)
(***************************************************************************)
MaxPrefixes == 2    \* sample prefixes in the prefix pickle

\* A cluster output directory: whether it holds the FL pickle
\* (final_pickle_fn) and the nFL pickle (nfl_all_pickle_fn).
ClusterDirs == [fl : BOOLEAN, nfl : BOOLEAN]

\* The reports of an earlier run that may lie at the output paths.
OldReport == [exists |-> TRUE, data |-> <<"old">>]
NoReport == [exists |-> FALSE, data |-> <<>>]

\* What the constructor's arguments name on disk: the group file, the prefix
\* pickle (its 'HQ' entry, if any, maps each sample prefix to a directory)
\* and the two output paths.
CountInputs ==
    [group_exists : BOOLEAN,
     pickle_exists : BOOLEAN,
     has_HQ : BOOLEAN,
     HQ : UNION {[1..n -> ClusterDirs] : n \in 0..MaxPrefixes},
     read_stat0 : {NoReport, OldReport},
     abund0 : {NoReport, OldReport}]

InitCount ==
    /\ cin \in CountInputs
    /\ kpc = "new"
    /\ prefix_dict = None
    /\ raised = ""
    /\ read_stat = cin.read_stat0
    /\ abund = cin.abund0
    /\ CollapseIdle
    /\ ChainIdle
    /\ IoIdle

\* A validation that looks at the group file only.
validate_group_only(c) ==
    IF ~c.group_exists THEN "IOError: Input group file does not exist" ELSE ""

\* validate_inputs: the exception it raises, "" if none.
validate_inputs(c) ==
    IF ~c.group_exists THEN "IOError: Input group file does not exist"
    ELSE IF ~c.pickle_exists
         THEN "IOError: Input hq lq prefix dict pickle file does not exist"
    ELSE ""

\* cPickle.load(open(pickle_filename, 'rb'))['HQ']: an IOError of open and a
\* KeyError of the lookup are both turned into a ValueError.
LoadPrefixDict(c) ==
    IF ~c.pickle_exists \/ ~c.has_HQ
    THEN [raised |-> "ValueError: Could not load sample prefix dict", value |-> None]
    ELSE [raised |-> "", value |-> c.HQ]

\* CountRunner.__init__
CountRunnerInit ==
    /\ kpc = "new"
    /\ LET v == validate_inputs(cin)
           l == LoadPrefixDict(cin)
       IN  IF v # "" THEN raised' = v /\ prefix_dict' = None /\ kpc' = "failed"
           ELSE IF l.raised # ""
                THEN raised' = l.raised /\ prefix_dict' = None /\ kpc' = "failed"
           ELSE raised' = "" /\ prefix_dict' = l.value /\ kpc' = "constructed"
    /\ UNCHANGED <<cin, read_stat, abund>>
    /\ UNCHANGED <<collapseVars, chainVars, ioVars>>

\* prefix_fl_pickle_tuples / prefix_nfl_pickle_tuples: the exception raised
\* while the list is built, "" if every pickle exists.
prefix_fl_pickle_tuples ==
    IF \E i \in 1..Len(prefix_dict) : ~prefix_dict[i].fl
    THEN "IOError: FL pickle does not exist" ELSE ""

prefix_nfl_pickle_tuples ==
    IF \E i \in 1..Len(prefix_dict) : ~prefix_dict[i].nfl
    THEN "IOError: NFL pickle does not exist" ELSE ""

\* The rows of the read-status report: one FL and one nFL read per sample.
ReadRows(kind) == [i \in 1..Len(prefix_dict) |-> [sample |-> i, kind |-> kind]]

\* run: cid_info is read from the group file.
CR_ReadGroup ==
    /\ kpc = "constructed"
    /\ kpc' = "fl"
    /\ UNCHANGED <<cin, prefix_dict, raised, read_stat, abund>>
    /\ UNCHANGED <<collapseVars, chainVars, ioVars>>

\* run: the argument prefix_fl_pickle_tuples is evaluated, then
\* output_read_count_FL writes the report anew (output_mode 'w').
CR_OutputFL ==
    /\ kpc = "fl"
    /\ IF prefix_fl_pickle_tuples # ""
       THEN raised' = prefix_fl_pickle_tuples /\ kpc' = "failed"
            /\ UNCHANGED read_stat
       ELSE read_stat' = [exists |-> TRUE, data |-> ReadRows("FL")]
            /\ kpc' = "nfl" /\ UNCHANGED raised
    /\ UNCHANGED <<cin, prefix_dict, abund>>
    /\ UNCHANGED <<collapseVars, chainVars, ioVars>>

\* A write that puts the rows before what the report holds.
output_read_count_nFL_first(report, rows) ==
    [report EXCEPT !.data = rows \o @]

\* output_read_count_nFL with output_mode 'a': the rows are appended.
output_read_count_nFL(report, rows) ==
    [report EXCEPT !.data = @ \o rows]

\* run: the argument prefix_nfl_pickle_tuples is evaluated, then
\* output_read_count_nFL appends to the report (output_mode 'a').
CR_OutputNFL ==
    /\ kpc = "nfl"
    /\ IF prefix_nfl_pickle_tuples # ""
       THEN raised' = prefix_nfl_pickle_tuples /\ kpc' = "failed"
            /\ UNCHANGED read_stat
       ELSE read_stat' = output_read_count_nFL(read_stat, ReadRows("nFL"))
            /\ kpc' = "abundance" /\ UNCHANGED raised
    /\ UNCHANGED <<cin, prefix_dict, abund>>
    /\ UNCHANGED <<collapseVars, chainVars, ioVars>>

\* The abundance report of a read-status report: the reads of each kind.
AbundanceOf(rows) ==
    [fl |-> Cardinality({i \in 1..Len(rows) : rows[i].kind = "FL"}),
     nfl |-> Cardinality({i \in 1..Len(rows) : rows[i].kind = "nFL"})]

\* run: make_abundance_file
CR_MakeAbundance ==
    /\ kpc = "abundance"
    /\ abund' = [exists |-> TRUE, data |-> <<AbundanceOf(read_stat.data)>>]
    /\ kpc' = "done"
    /\ UNCHANGED <<cin, prefix_dict, raised, read_stat>>
    /\ UNCHANGED <<collapseVars, chainVars, ioVars>>

NextCount ==
    \/ CountRunnerInit
    \/ CR_ReadGroup
    \/ CR_OutputFL
    \/ CR_OutputNFL
    \/ CR_MakeAbundance

SpecCount == InitCount /\ [][NextCount]_vars

(***************************************************************************)
(* What a CountRunner that failed left behind.                             *)
(***************************************************************************)
Constructed == kpc # "new"

IsIOError(e) == e \in {"IOError: Input group file does not exist",
                       "IOError: Input hq lq prefix dict pickle file does not exist"}

IsValueError(e) == e = "ValueError: Could not load sample prefix dict"

NoCountOutput == read_stat = cin.read_stat0 /\ abund = cin.abund0

\* C13: once the constructor has run, a missing group file or prefix pickle
\* has raised an IOError and a pickle without the 'HQ' key a ValueError; in
\* both cases there is no CountRunner (no prefix dict, run never starts)
\* and the two reports are as they were.
C13_ConstructorFails ==
    Constructed =>
        /\ (~cin.group_exists \/ ~cin.pickle_exists) => IsIOError(raised)
        /\ (cin.group_exists /\ cin.pickle_exists /\ ~cin.has_HQ)
               => IsValueError(raised)
        /\ (IsIOError(raised) \/ IsValueError(raised))
               => kpc = "failed" /\ prefix_dict = None /\ NoCountOutput

\* The constructor failed on a pickle without 'HQ' while older reports lie
\* at the output paths.
C13_Witness ==
    /\ Constructed /\ IsValueError(raised)
    /\ cin.pickle_exists /\ ~cin.has_HQ
    /\ read_stat = OldReport

RunFailedOnPickle ==
    raised \in {"IOError: FL pickle does not exist", "IOError: NFL pickle does not exist"}

\* C14: whenever run has failed because an FL or nFL pickle of a sample does
\* not exist, the read-status report and the abundance report are as they
\* were before the run.
C14_NoPartialOutput == RunFailedOnPickle => NoCountOutput

-----------------------------------------------------------------------------
\* GroupIO: GroupRecord, GroupWriter and GroupReader.
\*
\* Here strings are lists of one-character strings, so that str.strip,
\* str.split and str.join can be computed as Python computes them.

TAB == "\t"
COMMA == ","
NL == "\n"

\* The characters str.strip removes from both ends of a line.
Whitespace == {" ", TAB, NL}

MaxMembers == 2

\* Names and member ids to draw from: none holds a tab, a comma or a newline.
Ids ==
    { <<>>, <<"a">>, <<"b">>, <<" ", "a">>, <<"a", " ">>, <<"#", "a">>,
      <<"a", " ", "b">> }

MemberLists == UNION {[1..n -> Ids] : n \in 0..MaxMembers}

GroupRecords == {GroupRecord(n, m) : n \in Ids, m \in MemberLists}

RECURSIVE Join(_, _)
Join(strs, sep) ==
    IF strs = <<>> THEN <<>>
    ELSE IF Len(strs) = 1 THEN strs[1]
    ELSE strs[1] \o <<sep>> \o Join(Tail(strs), sep)

RECURSIVE LStrip(_)
LStrip(s) ==
    IF s # <<>> /\ s[1] \in Whitespace THEN LStrip(Tail(s)) ELSE s

RECURSIVE RStrip(_)
RStrip(s) ==
    IF s # <<>> /\ s[Len(s)] \in Whitespace
    THEN RStrip(SubSeq(s, 1, Len(s) - 1))
    ELSE s

\* A parser that takes the line as it is.
StripNothing(s) == s

Strip(s) == RStrip(LStrip(s))

\* str.split(sep): the fields between the separators; one (empty) field for
\* the empty string.
RECURSIVE Split(_, _)
Split(s, sep) ==
    IF \A i \in 1..Len(s) : s[i] # sep THEN <<s>>
    ELSE LET i == CHOOSE k \in 1..Len(s) :
                      s[k] = sep /\ \A j \in 1..(k - 1) : s[j] # sep
         IN  <<SubSeq(s, 1, i - 1)>> \o Split(SubSeq(s, i + 1, Len(s)), sep)

\* GroupRecord.__str__
GroupRecordStr(record) == record.name \o <<TAB>> \o Join(record.members, COMMA)

NoRecord == GroupRecord(<<>>, <<>>)

\* GroupRecord.fromString: the record, or the ValueError raised.
fromString(line) ==
    LET fields == Split(Strip(line), TAB)
    IN  IF Len(fields) # 2
        THEN [raised |-> "ValueError", rec |-> NoRecord]
        ELSE [raised |-> "",
              rec |-> GroupRecord(fields[1], Split(fields[2], COMMA))]

\* GroupWriter.writeRecord: the text of the file after the write.
writeRecord(file, record) == file \o GroupRecordStr(record) \o <<NL>>

\* GroupReader.__iter__ run to its end: the lines of the file are stripped,
\* empty lines and lines starting with '#' are skipped, every other line goes
\* through fromString; the first ValueError ends the iteration.
RECURSIVE ReadLines(_)
ReadLines(lines) ==
    IF lines = <<>> THEN [raised |-> "", recs |-> <<>>]
    ELSE LET line == Strip(lines[1])
             rest == ReadLines(Tail(lines))
         IN  IF Len(line) > 0 /\ line[1] # "#"
             THEN LET r == fromString(line)
                  IN  IF r.raised # "" THEN [raised |-> r.raised, recs |-> <<>>]
                      ELSE IF rest.raised # "" THEN rest
                      ELSE [raised |-> "", recs |-> <<r.rec>> \o rest.recs]
             ELSE rest

GroupReader(file) == ReadLines(Split(file, NL))

InitGroupIO ==
    /\ grec \in GroupRecords
    /\ gpc = "new"
    /\ gparsed = <<>>
    /\ gfile = <<>>
    /\ gread = <<>>
    /\ CollapseIdle /\ ChainIdle /\ CountIdle /\ MegaIOIdle /\ IceIdle

\* GroupRecord.fromString(str(record))
GR_FromString ==
    /\ gpc = "new"
    /\ gparsed' = fromString(GroupRecordStr(grec))
    /\ gpc' = "parsed"
    /\ UNCHANGED <<grec, gfile, gread>>
    /\ UNCHANGED <<collapseVars, chainVars, countVars, megaIOVars, iceVars>>

\* GroupWriter(f).writeRecord(record), then close
GW_WriteRecord ==
    /\ gpc = "parsed"
    /\ gfile' = writeRecord(gfile, grec)
    /\ gpc' = "written"
    /\ UNCHANGED <<grec, gparsed, gread>>
    /\ UNCHANGED <<collapseVars, chainVars, countVars, megaIOVars, iceVars>>

\* [r for r in GroupReader(f)]
GR_Iter ==
    /\ gpc = "written"
    /\ gread' = GroupReader(gfile)
    /\ gpc' = "read"
    /\ UNCHANGED <<grec, gparsed, gfile>>
    /\ UNCHANGED <<collapseVars, chainVars, countVars, megaIOVars, iceVars>>

NextGroupIO ==
    \/ GR_FromString
    \/ GW_WriteRecord
    \/ GR_Iter

SpecGroupIO == InitGroupIO /\ [][NextGroupIO]_vars

-----------------------------------------------------------------------------
\* Claim C21

Parsed == gpc \in {"parsed", "written", "read"}

ParsedBack == gparsed.raised = "" /\ gparsed.rec = grec

ReadBack == gread.raised = "" /\ gread.recs = <<grec>>

TextAsStated ==
    gfile = grec.name \o <<TAB>> \o Join(grec.members, COMMA) \o <<NL>>

\* The name does not start with whitespace and the comma-joined members do
\* not end with whitespace (neither is empty).
Stable(record) ==
    LET members == Join(record.members, COMMA)
    IN  /\ record.name # <<>> /\ record.name[1] \notin Whitespace
        /\ members # <<>> /\ members[Len(members)] \notin Whitespace

Uncommented(record) == record.name # <<>> => record.name[1] # "#"

-----------------------------------------------------------------------------
\* MergeGroupIO: a caller opens a MegaInfoWriter, constructs
\* MergeGroupOperations and writes each of them, closes the writer and reads
\* the file back with MegaInfoReader.

MaxOps == 2

\* Python values by type, as far as isinstance and "is None" tell them apart.
PyStr(v) == [t |-> "str", v |-> v]
PyNone == [t |-> "NoneType", v |-> None]
PyGmapRecord(seqid) == [t |-> "GmapRecord", v |-> seqid]
PyInt == [t |-> "int", v |-> "7"]

PbidArgs == {PyStr("PB.1.1"), PyInt}
GroupArgs == {PyNone, PyStr("PB.2.1"), PyStr("NA"), PyGmapRecord("PB.3.1"), PyInt}

\* A check without the assertion on two absent parents.
sanity_check_types(pbid, group1, group2) ==
    /\ pbid.t = "str"
    /\ group1.t \in {"GmapRecord", "NoneType", "str"}
    /\ group2.t \in {"GmapRecord", "NoneType", "str"}

\* MergeGroupOperation._sanity_check: TRUE when no assertion fails.
sanity_check(pbid, group1, group2) ==
    /\ pbid.t = "str"
    /\ ~(group1.t = "NoneType" /\ group2.t = "NoneType")
    /\ group1.t \in {"GmapRecord", "NoneType", "str"}
    /\ group2.t \in {"GmapRecord", "NoneType", "str"}

\* What __str__ prints of an argument other than None: the seqid of a
\* GmapRecord, the string itself.
Printed(arg) == arg.v

\* The (prefix1, prefix2) pairs chain_samples passes to its fold steps.
PrefixPairs == { <<"s1", "s2">>, <<"tmp_s2", "s3">> }

InitMegaIO ==
    /\ \E pp \in PrefixPairs :
           mwin = [filename |-> o_mega_fn(pp[2]), prefix1 |-> pp[1], prefix2 |-> pp[2]]
    /\ mwpc = "new"
    /\ mwargs = <<>>
    /\ mwops = <<>>
    /\ mwraised = ""
    /\ mwread = <<>>
    /\ mega = [p \in MegaPaths |-> NoMega]
    /\ chain = <<>> /\ ccfg = <<>> /\ cpc = "idle" /\ o = <<>> /\ fi = 0
    /\ folds = <<>> /\ cexists = {} /\ abundance_info = <<>>
    /\ mega_info_d = <<>> /\ rowi = 0 /\ walk = <<>>
    /\ out_ids = <<>> /\ out_counts = <<>>
    /\ CollapseIdle /\ CountIdle /\ GroupIOIdle /\ IceIdle

MegaIOFrame ==
    /\ UNCHANGED <<chain, ccfg, cpc, o, fi, folds, cexists, abundance_info, mega_info_d>>
    /\ UNCHANGED <<rowi, walk, out_ids, out_counts>>
    /\ UNCHANGED <<collapseVars, countVars, groupIOVars, iceVars>>

\* MegaInfoWriter.__init__: the file is created and the header written.
MW_Init ==
    /\ mwpc = "new"
    /\ mega' = [mega EXCEPT ![mwin.filename] =
                    MegaInfoWriter(mwin.prefix1, mwin.prefix2, <<>>)]
    /\ mwpc' = "open"
    /\ UNCHANGED <<mwin, mwargs, mwops, mwraised, mwread>>
    /\ MegaIOFrame

\* MegaInfoWriter.writeRecord: one more line.
WriteOperation(file, record) ==
    [file EXCEPT !.rows = Append(@, OperationStr(record))]

\* writer.writeRecord(MergeGroupOperation(pbid, group1, group2)): a failed
\* assertion of the constructor ends the loop before anything is written.
MW_WriteRecord ==
    /\ mwpc = "open"
    /\ Len(mwops) < MaxOps
    /\ \E pbid \in PbidArgs, group1 \in GroupArgs, group2 \in GroupArgs :
        /\ mwargs' = Append(mwargs, <<pbid, group1, group2>>)
        /\ IF sanity_check(pbid, group1, group2)
           THEN LET record == MergeGroupOperation(Printed(pbid), Printed(group1),
                                                  Printed(group2))
                IN  /\ mwops' = Append(mwops, record)
                    /\ mega' = [mega EXCEPT ![mwin.filename] = WriteOperation(@, record)]
                    /\ UNCHANGED <<mwpc, mwraised>>
           ELSE /\ mwraised' = "AssertionError"
                /\ mwpc' = "failed"
                /\ UNCHANGED <<mwops, mega>>
    /\ UNCHANGED <<mwin, mwread>>
    /\ MegaIOFrame

\* writer.close()
MW_Close ==
    /\ mwpc = "open"
    /\ mwpc' = "closed"
    /\ UNCHANGED <<mwin, mwargs, mwops, mwraised, mwread, mega>>
    /\ MegaIOFrame

\* [r for r in MegaInfoReader(filename)]
MR_Read ==
    /\ mwpc = "closed"
    /\ mwread' = MegaInfoReader(mwin.filename)
    /\ mwpc' = "read"
    /\ UNCHANGED <<mwin, mwargs, mwops, mwraised, mega>>
    /\ MegaIOFrame

NextMegaIO ==
    \/ MW_Init
    \/ MW_WriteRecord
    \/ MW_Close
    \/ MR_Read

SpecMegaIO == InitMegaIO /\ [][NextMegaIO]_vars

-----------------------------------------------------------------------------
\* Claim C22

MegaFile == mega[mwin.filename]

Rendered(group) == IF group = None THEN "NA" ELSE group

-----------------------------------------------------------------------------
\* Claim C23

Absent(arg) == arg.t = "NoneType"

NoneForAbsent(args) ==
    /\ Absent(args[2]) \/ Printed(args[2]) # "NA"
    /\ Absent(args[3]) \/ Printed(args[3]) # "NA"

\* C23: every operation that was constructed has a string as pbid, parents
\* that are each a GmapRecord, a string or None, and not both parents None;
\* any other construction failed with an AssertionError and wrote no row;
\* and no row written from an operation whose absent parents were given as
\* None has "NA" in both parent columns.
C23_NeverTwoAbsentParents ==
    /\ Len(mwargs) - Len(mwops) \in {0, 1}
    /\ \A i \in DOMAIN mwops :
        /\ mwargs[i][1].t = "str"
        /\ ~(Absent(mwargs[i][2]) /\ Absent(mwargs[i][3]))
        /\ \A k \in {2, 3} : mwargs[i][k].t \in {"GmapRecord", "str", "NoneType"}
        /\ NoneForAbsent(mwargs[i]) =>
               ~(MegaFile.rows[i][2] = "NA" /\ MegaFile.rows[i][3] = "NA")
    /\ Len(mwargs) > Len(mwops) =>
        /\ mwraised = "AssertionError" /\ mwpc = "failed"
        /\ LET a == mwargs[Len(mwargs)]
           IN  \/ a[1].t # "str"
               \/ Absent(a[2]) /\ Absent(a[3])
               \/ \E k \in {2, 3} : a[k].t \notin {"GmapRecord", "str", "NoneType"}
    /\ mwraised = "AssertionError" => Len(mwargs) > Len(mwops)

\* After one operation with a single absent parent was written, the
\* construction of an operation with both parents None was refused.
C23_Witness ==
    /\ mwpc = "failed" /\ mwraised = "AssertionError"
    /\ Len(mwops) = 1 /\ Len(mwargs) = 2
    /\ mwops[1].group1 = None
    /\ mwargs[2][1].t = "str" /\ Absent(mwargs[2][2]) /\ Absent(mwargs[2][3])
    /\ Len(MegaFile.rows) = 1

-----------------------------------------------------------------------------
\* Claim C24

RowsOfKind(kind) == {i \in 1..Len(read_stat.data) : read_stat.data[i].kind = kind}

\* C24: after output_read_count_FL the read-status report holds the FL rows
\* and nothing else (what was there before is gone); after
\* output_read_count_nFL it holds all FL rows followed by all nFL rows; and
\* the abundance report is written only after both, computed from that
\* report.
C24_OutputOrder ==
    /\ kpc = "nfl" =>
        /\ RowsOfKind("FL") = 1..Len(read_stat.data)
        /\ Len(read_stat.data) = Len(prefix_dict)
    /\ kpc \in {"abundance", "done"} =>
        /\ RowsOfKind("FL") = 1..Len(prefix_dict)
        /\ RowsOfKind("nFL") = (Len(prefix_dict) + 1)..(2 * Len(prefix_dict))
        /\ Len(read_stat.data) = 2 * Len(prefix_dict)
    /\ kpc \in {"new", "constructed", "fl"} => read_stat = cin.read_stat0
    /\ kpc # "done" => abund = cin.abund0
    /\ kpc = "done" => abund.exists /\ abund.data = <<AbundanceOf(read_stat.data)>>

\* A run over two samples is done where an older report lay at the path of
\* the read-status report.
C24_Witness ==
    /\ kpc = "done" /\ Len(prefix_dict) = MaxPrefixes
    /\ cin.read_stat0 = OldReport
    /\ read_stat.data[1].kind = "FL" /\ read_stat.data[2 * MaxPrefixes].kind = "nFL"
    /\ abund.data[1].fl = MaxPrefixes

-----------------------------------------------------------------------------
\* Claim C25

Resolving == cpc \in {"resolve", "walk", "done"} \/ (cpc = "failed" /\ rowi >= 1)

\* Some step of the lineage of line t names an accumulated parent that has
\* no line in the step before.
DanglingParent(t) ==
    \E j \in 3..Len(chain) :
        LET row == Lineage(t)[j] IN
        /\ row # <<>> /\ row[2] # "NA"
        /\ \A i \in DOMAIN StepRows(j - 1) : StepRows(j - 1)[i][1] # row[2]

\* Some sample's id in the lineage of line t is not in the sample's
\* abundance file.
NoAbundanceEntry(t) ==
    \E i \in DOMAIN chain :
        LET id == Contribution(Lineage(t), i) IN
        id # "NA" /\ id \notin DOMAIN ccfg[i].abund

MissingKey(t) == DanglingParent(t) \/ NoAbundanceEntry(t)

-----------------------------------------------------------------------------
\* IceQuiverMerge: ice_quiver.py merge root_dir N.
\*
\* IceQuiver, cat_files and nfs_exists are not at hand.  IceQuiver names the
\* logs as the module's description does; nfs_exists is the existence of the
\* file; cat_files writes dst anew with the lines of the files of src, in
\* the order of src, and what it does with an empty src is left open (it
\* raises, or it writes an empty dst).

MaxChunks == 3

\* root_dir/log/submitted_quiver_jobs.{i}of{N}.txt
submitted_quiver_jobs_log_of_chunk_i(i, num_chunks) ==
    "log/submitted_quiver_jobs." \o ToString(i) \o "of" \o ToString(num_chunks) \o ".txt"

\* root_dir/log/submitted_quiver_jobs.txt
submitted_quiver_jobs_log == "log/submitted_quiver_jobs.txt"

ChunkLogs(N) == {submitted_quiver_jobs_log_of_chunk_i(i, N) : i \in 0..(N - 1)}

\* What IceQuiverI left in the log of a chunk.
JobsOf(f) == <<"qsub " \o f>>

NoLog == [exists |-> FALSE, data |-> <<>>]
OldLog == [exists |-> TRUE, data |-> <<"qsub old">>]

InitIce ==
    /\ \E N \in 0..MaxChunks, present \in SUBSET ChunkLogs(MaxChunks), old \in {NoLog, OldLog} :
        \E here \in SUBSET ChunkLogs(N) :
           icein = [N |-> N,
                    logs |-> [f \in here \cup (present \ ChunkLogs(N)) |-> JobsOf(f)],
                    merged0 |-> old]
    /\ ipc = "start"
    /\ isrc = <<>>
    /\ ii = 0
    /\ iraised = ""
    /\ icelog = <<>>
    /\ merged = icein.merged0
    /\ ret = -1
    /\ CollapseIdle /\ ChainIdle /\ CountIdle /\ GroupIOIdle /\ MegaIOIdle

IceFrame == UNCHANGED <<collapseVars, chainVars, countVars, groupIOVars, megaIOVars>>

nfs_exists(f) == f \in DOMAIN icein.logs

\* The logs of the chunks from the last to the first.
SourceLogsBackward(N) ==
    [k \in 1..N |-> submitted_quiver_jobs_log_of_chunk_i(N - k, N)]

\* src: the logs of the chunks i = 0 .. N-1
SourceLogs(N) ==
    [k \in 1..N |-> submitted_quiver_jobs_log_of_chunk_i(k - 1, N)]

RECURSIVE Lines(_)
Lines(src) ==
    IF src = <<>> THEN <<>> ELSE icein.logs[Head(src)] \o Lines(Tail(src))

cat_files(src, dst) == [exists |-> TRUE, data |-> Lines(src)]

\* IceQuiverMergeRunner.run up to the loop of IceQuiverMerge.run: the
\* IceQuiver is made, three lines go to its log, src is built.
IQM_Start ==
    /\ ipc = "start"
    /\ icelog' = <<"cmd", "root_dir", "Total number of chunks">>
    /\ isrc' = SourceLogs(icein.N)
    /\ ii' = 1
    /\ ipc' = "check"
    /\ UNCHANGED <<icein, iraised, merged, ret>>
    /\ IceFrame

\* for f in src: if not nfs_exists(f): raise IOError
IQM_Check ==
    /\ ipc = "check"
    /\ ii <= Len(isrc)
    /\ IF nfs_exists(isrc[ii])
       THEN ii' = ii + 1 /\ UNCHANGED <<ipc, iraised>>
       ELSE iraised' = "IOError" /\ ipc' = "raised" /\ UNCHANGED ii
    /\ UNCHANGED <<icein, isrc, icelog, merged, ret>>
    /\ IceFrame

\* after the loop: one more line to the log, cat_files, close_log
IQM_Cat ==
    /\ ipc = "check"
    /\ ii > Len(isrc)
    /\ icelog' = Append(icelog, "Collecting submitted quiver jobs")
    /\ \/ /\ merged' = cat_files(isrc, submitted_quiver_jobs_log)
          /\ ipc' = "ran"
          /\ UNCHANGED iraised
       \/ /\ isrc = <<>>
          /\ iraised' = "ValueError"
          /\ ipc' = "raised"
          /\ UNCHANGED merged
    /\ UNCHANGED <<icein, isrc, ii, ret>>
    /\ IceFrame

\* IceQuiverMergeRunner.run: except: return 1; else return 0
IQM_Return ==
    /\ ipc \in {"ran", "raised"}
    /\ ret' = IF ipc = "raised" THEN 1 ELSE 0
    /\ ipc' = "returned"
    /\ UNCHANGED <<icein, isrc, ii, iraised, icelog, merged>>
    /\ IceFrame

NextIce ==
    \/ IQM_Start
    \/ IQM_Check
    \/ IQM_Cat
    \/ IQM_Return

SpecIce == InitIce /\ [][NextIce]_vars

-----------------------------------------------------------------------------
\* Claim C26

AllChunksLogged ==
    \A i \in 0..(icein.N - 1) :
        submitted_quiver_jobs_log_of_chunk_i(i, icein.N) \in DOMAIN icein.logs

RECURSIVE JobsUpTo(_)
JobsUpTo(n) ==
    IF n = 0 THEN <<>>
    ELSE JobsUpTo(n - 1)
         \o icein.logs[submitted_quiver_jobs_log_of_chunk_i(n - 1, icein.N)]

\* C26: the merged log is written only after the logs of all N chunks were
\* found; if one is missing the run raises IOError, the merged log stays as
\* it was and the runner returns 1; when the run succeeds the merged log
\* holds the lines of the chunk logs in increasing chunk order and the
\* runner returns 0; the runner returns 1 exactly when the run raised.
C26_AllOrNothing ==
    /\ ~AllChunksLogged =>
        /\ merged = icein.merged0
        /\ ipc \notin {"ran"}
        /\ ipc \in {"raised", "returned"} => iraised = "IOError"
        /\ ipc = "returned" => ret = 1
    /\ ipc \in {"start", "check", "raised"} => merged = icein.merged0
    /\ iraised # "" => merged = icein.merged0
    /\ (ipc = "ran" \/ (ipc = "returned" /\ iraised = "")) =>
        /\ AllChunksLogged
        /\ merged = [exists |-> TRUE, data |-> JobsUpTo(icein.N)]
    /\ ipc = "returned" => (ret = 1 <=> iraised # "") /\ (ret = 0 <=> iraised = "")
    /\ ipc # "returned" => ret = -1

\* The logs of all chunks but the last were found, the run raised IOError,
\* the runner returned 1 and the merged log of an earlier run is untouched.
C26_Witness ==
    /\ ipc = "returned" /\ icein.N = MaxChunks
    /\ ret = 1 /\ iraised = "IOError"
    /\ ii = MaxChunks
    /\ \A k \in 1..(MaxChunks - 1) : nfs_exists(isrc[k])
    /\ merged = OldLog

-----------------------------------------------------------------------------
\* Claim C27

\* Every line of every mega-info file written so far has at most one parent
\* that is NA.
AtMostOneAbsentParent ==
    \A j \in 2..Len(chain) :
        \A i \in DOMAIN StepRows(j) :
            ~(StepRows(j)[i][2] = "NA" /\ StepRows(j)[i][3] = "NA")

\* C27: as long as no mega-info line has both parents NA, every line of the
\* chained-ids table below the header has an id that is not NA for at least
\* one sample.
C27_SomeSampleResolved ==
    AtMostOneAbsentParent =>
        \A t \in Resolved :
            \E i \in DOMAIN chain : out_ids[t][i + 1] # "NA"

\* A finished chain of three samples or more with a transcript that only the
\* first sample has and one that only the last sample has.
C27_Witness ==
    /\ cpc = "done" /\ Len(chain) >= 3 /\ AtMostOneAbsentParent
    /\ \E t \in Resolved :
        /\ out_ids[t][2] # "NA"
        /\ \A i \in 2..Len(chain) : out_ids[t][i + 1] = "NA"
    /\ \E t \in Resolved :
        /\ out_ids[t][Len(chain) + 1] # "NA"
        /\ \A i \in 1..(Len(chain) - 1) : out_ids[t][i + 1] = "NA"

-----------------------------------------------------------------------------
\* Claim C28

BranchReturned == pc \in {"collapsed", "linked", "done"}

\* C28: once Branch.run has returned, each of the four writers it opened
\* has been closed exactly once.
C28_WritersClosedOnce ==
    BranchReturned => \A w \in Writers : closes[w] = 1

-----------------------------------------------------------------------------
\* Claim C29

InputsOfCall(call) ==
    IF call.fn = "pick_rep" THEN {call.gff, call.group, call.bad}
    ELSE IF call.fn = "collapse_fuzzy_junctions" THEN {call.gff, call.group}
    ELSE {}

\* C29: every path handed as an input to collapse_fuzzy_junctions or to
\* pick_rep names a file that an earlier step of the run has written or
\* linked; for pick_rep these are the good GFF, the group file and the bad
\* GFF.
C29_InputsWritten ==
    \A k \in DOMAIN calls :
        \A path \in InputsOfCall(calls[k]) : path \in Paths /\ Exists(path)

-----------------------------------------------------------------------------
\* Claim C30

\* The output headers are written: the next statement opens the reader over
\* the last sample's mega-info.
ReaderOpened == out_ids # <<>>

FoldOutput(path) == \E k \in DOMAIN folds : folds[k].o_mega_fn = path

\* The mega-info files the resolution opens: those of cfg.samples[1:] for
\* the dict, and the last sample's for the reader.
OpenedMegaInfo ==
    {o_mega_fn(nm) : nm \in Range(Tail(chain))} \cup {o_mega_fn(chain[Len(chain)])}

\* The columns the resolution looks up in a line of step j.
ColumnsOfStep(j) ==
    {"pbid", chain[j]} \cup {IF j = 2 THEN chain[1] ELSE o_prefix(chain[j - 1])}

\* C30: once the resolution has started, every mega-info file it opens was
\* written by a fold step of this run, and every column it looks up in the
\* file of a step is in the header that step wrote.
C30_ReadsOnlyFoldOutputs ==
    ReaderOpened =>
        /\ \A path \in OpenedMegaInfo : FoldOutput(path) /\ mega[path].exists
        /\ \A j \in 2..Len(chain) :
               ColumnsOfStep(j) \subseteq Range(mega[o_mega_fn(chain[j])].header)

=============================================================================
